---- MODULE Spec2Model ----
(***************************************************************************)
(* Version-sniffing dispatch core of dbt-artifacts-parser-ts.              *)
(*                                                                         *)
(* Four categories (manifest, catalog, run_results, sources) each expose   *)
(* an auto-detect parser and one pinned parser per supported version.      *)
(* The repository holds two generations of the manifest, catalog and       *)
(* run_results cores: "helper" (guard, extraction and expected-version     *)
(* check in validate<Category>AndGetVersion) and "inline" (guard written   *)
(* inside parse<Category>, pinned parsers calling get<Category>Version     *)
(* directly).  sources exists in the helper generation only.               *)
(*                                                                         *)
(* Strings are sequences of one-character strings, so that the regular     *)
(* expression, parseInt and the message templates are computed and not     *)
(* assumed.                                                                *)
(***************************************************************************)
EXTENDS Integers, Sequences, FiniteSets, TLC

VARIABLES pc, parser, arg, version, result, trace, before, remembered, second,
          preprocess, typegen

\* pc, parser, arg, version, result: the call in progress; trace: the stages
\* it has passed; before: the content of the argument when the call began;
\* remembered: an earlier call whose outcome the caller kept; second: a second
\* call in progress at the same time; preprocess: a run of the build script
\* preprocess-refs.js; typegen: a call of process_category of the build
\* script that generates the types
vars == <<pc, parser, arg, version, result, trace, before, remembered, second,
          preprocess, typegen>>

\* the variables of the parser calls
calls == <<pc, parser, arg, version, result, trace, before, remembered, second>>

(***************************************************************************)
(* Bounds of the explored inputs.                                          *)
(***************************************************************************)
\* identifiers carry the versions 0..MaxVersion
MaxVersion == 13
\* and up to MaxLeadingZeros zeros before the digits
MaxLeadingZeros == 1

(***************************************************************************)
(* String literals of the source.                                          *)
(***************************************************************************)
ManifestSegment == <<"m","a","n","i","f","e","s","t">>
CatalogSegment == <<"c","a","t","a","l","o","g">>
\* mutant: the run_results core matches its directory name, with an underscore
RunResultsSegmentWithUnderscore == <<"r","u","n","_","r","e","s","u","l","t","s">>
RunResultsSegment == <<"r","u","n","-","r","e","s","u","l","t","s">>
SourcesSegment == <<"s","o","u","r","c","e","s">>
Slash == <<"/">>
SlashV == <<"/","v">>
DotJson == <<".","j","s","o","n">>
NotA == <<"N","o","t"," ","a"," ">>
SpaceV == <<" ","v">>
Unsupported == <<"U","n","s","u","p","p","o","r","t","e","d"," ">>
VersionColon == <<" ","v","e","r","s","i","o","n",":"," ">>
InvalidFormat == <<"I","n","v","a","l","i","d"," ","d","b","t"," ","s","c","h","e","m","a"," ","v","e","r","s","i","o","n"," ","f","o","r","m","a","t",":"," ">>

Categories == {"manifest", "catalog", "run_results", "sources"}

\* the path segment each category's regular expression requires
Segment(cat) ==
  CASE cat = "manifest" -> ManifestSegment
    [] cat = "catalog" -> CatalogSegment
    [] cat = "run_results" -> RunResultsSegment
    [] cat = "sources" -> SourcesSegment

\* the artifact name each category's messages carry
ArtifactName(cat) ==
  CASE cat = "manifest" -> <<"m","a","n","i","f","e","s","t">>
    [] cat = "catalog" -> <<"c","a","t","a","l","o","g">>
    [] cat = "run_results" -> <<"r","u","n","-","r","e","s","u","l","t","s">>
    [] cat = "sources" -> <<"s","o","u","r","c","e","s">>

(***************************************************************************)
(* The type each case of the auto-detect switch casts to, by case label.   *)
(***************************************************************************)
ManifestCases == <<"V1", "V2", "V3", "V4", "V5", "V6", "V7", "V8", "V9", "V10", "V11", "V12">>
CatalogCases == <<"V1">>
RunResultsCases == <<"V1", "V2", "V3", "V4", "V5", "V6">>
SourcesCases == <<"V1", "V2", "V3">>

\* mutant: the manifest switch was not extended when v12 was added
SwitchCasesWithoutLatest(cat) ==
  CASE cat = "manifest" -> SubSeq(ManifestCases, 1, Len(ManifestCases) - 1)
    [] cat = "catalog" -> CatalogCases
    [] cat = "run_results" -> RunResultsCases
    [] cat = "sources" -> SourcesCases

SwitchCases(cat) ==
  CASE cat = "manifest" -> ManifestCases
    [] cat = "catalog" -> CatalogCases
    [] cat = "run_results" -> RunResultsCases
    [] cat = "sources" -> SourcesCases

(***************************************************************************)
(* The exported pinned parsers: parse<Category>V<k> compares the detected  *)
(* version with `expected` and casts its argument to `returns`.            *)
(***************************************************************************)
ManifestPinned ==
  << [expected |-> 1, returns |-> "V1"], [expected |-> 2, returns |-> "V2"],
     [expected |-> 3, returns |-> "V3"], [expected |-> 4, returns |-> "V4"],
     [expected |-> 5, returns |-> "V5"], [expected |-> 6, returns |-> "V6"],
     [expected |-> 7, returns |-> "V7"], [expected |-> 8, returns |-> "V8"],
     [expected |-> 9, returns |-> "V9"], [expected |-> 10, returns |-> "V10"],
     [expected |-> 11, returns |-> "V11"], [expected |-> 12, returns |-> "V12"] >>
CatalogPinned == << [expected |-> 1, returns |-> "V1"] >>
RunResultsPinned ==
  << [expected |-> 1, returns |-> "V1"], [expected |-> 2, returns |-> "V2"],
     [expected |-> 3, returns |-> "V3"], [expected |-> 4, returns |-> "V4"],
     [expected |-> 5, returns |-> "V5"], [expected |-> 6, returns |-> "V6"] >>
SourcesPinned ==
  << [expected |-> 1, returns |-> "V1"], [expected |-> 2, returns |-> "V2"],
     [expected |-> 3, returns |-> "V3"] >>

PinnedParsers(cat) ==
  CASE cat = "manifest" -> ManifestPinned
    [] cat = "catalog" -> CatalogPinned
    [] cat = "run_results" -> RunResultsPinned
    [] cat = "sources" -> SourcesPinned

Generations(cat) == IF cat = "sources" THEN {"helper"} ELSE {"helper", "inline"}

\* an entry point: pinned = 0 is parse<Category>, pinned = k is parse<Category>V<k>
Parsers ==
  { p \in [cat : Categories, gen : {"helper", "inline"}, pinned : 0..Len(ManifestPinned)] :
      /\ p.gen \in Generations(p.cat)
      /\ p.pinned <= Len(PinnedParsers(p.cat)) }

(***************************************************************************)
(* JavaScript values, as far as the parsers look at them.                  *)
(* An input is a value that may hold a `metadata` property, whose value may *)
(* hold a `dbt_schema_version` property, whose value may be a string.      *)
(***************************************************************************)
Kinds == {"undefined", "null", "boolean", "number", "string", "array", "object"}

\* typeof v
TypeOf(v) ==
  CASE v.kind = "undefined" -> "undefined"
    [] v.kind = "null" -> "object"
    [] v.kind = "boolean" -> "boolean"
    [] v.kind = "number" -> "number"
    [] v.kind = "string" -> "string"
    [] v.kind = "array" -> "object"
    [] v.kind = "object" -> "object"

\* !v is false: undefined, null, false, 0 and "" are the falsy values
Truthy(v) ==
  CASE v.kind \in {"undefined", "null"} -> FALSE
    [] v.kind \in {"array", "object"} -> TRUE
    [] OTHER -> v.truthy

UndefinedIdentifier == [kind |-> "undefined", truthy |-> FALSE, str |-> <<>>]
UndefinedMetadata ==
  [kind |-> "undefined", truthy |-> FALSE, hasVersion |-> FALSE,
   dbt_schema_version |-> UndefinedIdentifier, others |-> FALSE]

\* "metadata" in v, for a v that typeof reports as an object and is not null
HasMetadata(v) == v.kind = "object" /\ v.hasMetadata

\* v.metadata, for a v that is neither undefined nor null
Metadata(v) == IF HasMetadata(v) THEN v.metadata ELSE UndefinedMetadata

\* "dbt_schema_version" in m, for an m that typeof reports as an object and is not null
HasSchemaVersion(m) == m.kind = "object" /\ m.hasVersion

\* m.dbt_schema_version, for an m that is neither undefined nor null
SchemaVersion(m) == IF HasSchemaVersion(m) THEN m.dbt_schema_version ELSE UndefinedIdentifier

(***************************************************************************)
(* get<Category>Version: the regular expression, parseInt, and the number  *)
(* formatting of the template literals.                                    *)
(***************************************************************************)
DigitChars == {"0", "1", "2", "3", "4", "5", "6", "7", "8", "9"}

DigitValue(c) ==
  CASE c = "0" -> 0 [] c = "1" -> 1 [] c = "2" -> 2 [] c = "3" -> 3 [] c = "4" -> 4
    [] c = "5" -> 5 [] c = "6" -> 6 [] c = "7" -> 7 [] c = "8" -> 8 [] c = "9" -> 9

DigitChar(d) == <<"0", "1", "2", "3", "4", "5", "6", "7", "8", "9">>[d + 1]

EndsWith(s, t) == Len(s) >= Len(t) /\ SubSeq(s, Len(s) - Len(t) + 1, Len(s)) = t

DropLast(s, n) == SubSeq(s, 1, Len(s) - n)

\* the number of digit characters s ends with
RECURSIVE DigitRun(_)
DigitRun(s) ==
  IF s = <<>> \/ s[Len(s)] \notin DigitChars THEN 0 ELSE 1 + DigitRun(DropLast(s, 1))

\* mutant: the dot before "json" is not escaped, so it matches any character
RegexMatchUnescapedDot(seg, s) ==
  IF ~(Len(s) >= Len(DotJson) /\ EndsWith(s, SubSeq(DotJson, 2, Len(DotJson))))
  THEN <<>>
  ELSE LET body == DropLast(s, Len(DotJson))
           n == DigitRun(body)
       IN IF n >= 1 /\ EndsWith(DropLast(body, n), Slash \o seg \o SlashV)
          THEN SubSeq(body, Len(body) - n + 1, Len(body))
          ELSE <<>>

\* mutant: the pattern is anchored at the start too, /^\/<seg>\/v(\d+)\.json$/
RegexMatchAnchoredAtStart(seg, s) ==
  IF ~EndsWith(s, DotJson)
  THEN <<>>
  ELSE LET body == DropLast(s, Len(DotJson))
           n == DigitRun(body)
       IN IF n >= 1 /\ DropLast(body, n) = Slash \o seg \o SlashV
          THEN SubSeq(body, Len(body) - n + 1, Len(body))
          ELSE <<>>

\* mutant: the pattern leaves the segment out, /\/v(\d+)\.json$/
RegexMatchAnySegment(seg, s) ==
  IF ~EndsWith(s, DotJson)
  THEN <<>>
  ELSE LET body == DropLast(s, Len(DotJson))
           n == DigitRun(body)
       IN IF n >= 1 /\ EndsWith(DropLast(body, n), SlashV)
          THEN SubSeq(body, Len(body) - n + 1, Len(body))
          ELSE <<>>

\* s.match(/\/<seg>\/v(\d+)\.json$/): the capture group, or <<>> for null.
\* The pattern is anchored at the end only; the group is the digit run right
\* before ".json", which "/<seg>/v" must precede.
RegexMatch(seg, s) ==
  IF ~EndsWith(s, DotJson)
  THEN <<>>
  ELSE LET body == DropLast(s, Len(DotJson))
           n == DigitRun(body)
       IN IF n >= 1 /\ EndsWith(DropLast(body, n), Slash \o seg \o SlashV)
          THEN SubSeq(body, Len(body) - n + 1, Len(body))
          ELSE <<>>

RECURSIVE ParseInBase(_, _)
ParseInBase(digits, base) ==
  IF digits = <<>> THEN 0
  ELSE base * ParseInBase(DropLast(digits, 1), base) + DigitValue(digits[Len(digits)])

\* mutant: parseInt without the radix, in an engine that reads a leading
\* zero as the mark of an octal numeral
ParseIntWithoutRadix(digits) ==
  ParseInBase(digits, IF Len(digits) > 1 /\ digits[1] = "0" THEN 8 ELSE 10)

\* parseInt(digits, 10) of a non-empty digit string
RECURSIVE ParseInt(_)
ParseInt(digits) ==
  IF digits = <<>> THEN 0
  ELSE 10 * ParseInt(DropLast(digits, 1)) + DigitValue(digits[Len(digits)])

\* `${n}` of a non-negative integer
RECURSIVE NumberToString(_)
NumberToString(n) ==
  IF n < 10 THEN <<DigitChar(n)>> ELSE NumberToString(n \div 10) \o <<DigitChar(n % 10)>>

(***************************************************************************)
(* The four messages.                                                      *)
(***************************************************************************)
NotArtifactMessage(cat) == NotA \o ArtifactName(cat) \o DotJson

\* mutant: the message names the detected version, not the expected one
MismatchMessageOfDetected(cat, expected) ==
  NotA \o ArtifactName(cat) \o DotJson \o SpaceV \o NumberToString(version)

MismatchMessageWithoutVersion(cat, expected) == NotA \o ArtifactName(cat) \o DotJson

MismatchMessage(cat, expected) ==
  NotA \o ArtifactName(cat) \o DotJson \o SpaceV \o NumberToString(expected)

\* mutant: the unsupported version reported with the text of the mismatch
UnsupportedMessageAsMismatch(cat, v) == MismatchMessage(cat, v)

UnsupportedMessage(cat, v) ==
  Unsupported \o ArtifactName(cat) \o VersionColon \o NumberToString(v)

InvalidFormatMessage(s) == InvalidFormat \o s

(***************************************************************************)
(* Inputs.                                                                 *)
(***************************************************************************)
SchemaPrefix == <<"h","t","t","p","s",":","/","/","s","c","h","e","m","a","s",".","g","e","t","d","b","t",".","c","o","m","/","d","b","t">>
\* the version of the "unsupported version" tests of manifest and run_results
FarVersion == 99

UnderscoreSegment == <<"r","u","n","_","r","e","s","u","l","t","s">>

\* a prefix other than that of the published schemas
LocalPrefix == <<"f","i","l","e",":">>

Prefixes == {<<>>, SchemaPrefix, LocalPrefix}

IdentifierSegments == {Segment(cat) : cat \in Categories} \cup {UnderscoreSegment}

IdentifierVersions == 0..MaxVersion \cup {FarVersion}

Zeros(n) == [i \in 1..n |-> "0"]

\* the decimal numeral of k < 100, as a producer of artifacts writes it
Numeral(k) == IF k < 10 THEN <<DigitChar(k)>> ELSE <<DigitChar(k \div 10), DigitChar(k % 10)>>

\* <prefix>/<segment>/v<zeros><k>.json
Versioned(prefix, seg, zeros, k) ==
  prefix \o Slash \o seg \o SlashV \o Zeros(zeros) \o Numeral(k) \o DotJson

WellFormedIdentifiers ==
  { Versioned(prefix, seg, zeros, k) :
      prefix \in Prefixes, seg \in IdentifierSegments,
      zeros \in 0..MaxLeadingZeros, k \in IdentifierVersions }

\* strings that are no identifier of any category
MalformedOf(seg) ==
  LET base == SchemaPrefix \o Slash \o seg
  IN { base \o SlashV \o DotJson,
       base \o SlashV \o <<"-", "1">> \o DotJson,
       base \o SlashV \o <<"+", "1">> \o DotJson,
       base \o SlashV \o <<"x">> \o DotJson,
       base \o SlashV \o <<"1", "x">> \o DotJson,
       base \o SlashV \o <<"1", ".", "0">> \o DotJson,
       base \o Slash \o <<"1">> \o DotJson,
       base \o <<"/", "V", "1">> \o DotJson,
       seg \o SlashV \o <<"1">> \o DotJson,
       SchemaPrefix \o seg \o SlashV \o <<"1">> \o DotJson,
       base \o <<"x">> \o SlashV \o <<"1">> \o DotJson,
       base \o <<"/", "x">> \o SlashV \o <<"1">> \o DotJson,
       base \o SlashV \o <<"1">> \o DotJson \o <<"x">>,
       base \o SlashV \o <<"1">> \o DotJson \o <<" ">>,
       base \o SlashV \o <<"1">> \o DotJson \o Slash,
       base \o SlashV \o <<"1">>,
       base \o SlashV \o <<"1", "x", "j", "s", "o", "n">>,
       base \o SlashV \o <<"1", ".", "J", "S", "O", "N">>,
       base \o SlashV \o <<"1", ".", "x", "m", "l">> }

MalformedIdentifiers ==
  {<<>>, SchemaPrefix} \cup UNION { MalformedOf(Segment(cat)) : cat \in Categories }

IdentifierStrings == WellFormedIdentifiers \cup MalformedIdentifiers

StringValue(s) == [kind |-> "string", truthy |-> s # <<>>, str |-> s]

\* a primitive or container value without the property looked for
Plain ==
  { [kind |-> "undefined", truthy |-> FALSE], [kind |-> "null", truthy |-> FALSE],
    [kind |-> "boolean", truthy |-> FALSE], [kind |-> "boolean", truthy |-> TRUE],
    [kind |-> "number", truthy |-> FALSE], [kind |-> "number", truthy |-> TRUE],
    [kind |-> "string", truthy |-> FALSE], [kind |-> "string", truthy |-> TRUE],
    [kind |-> "array", truthy |-> TRUE], [kind |-> "object", truthy |-> TRUE] }

\* values of metadata.dbt_schema_version
IdentifierValues ==
  { [kind |-> v.kind, truthy |-> v.truthy, str |-> <<>>] : v \in { w \in Plain : w.kind # "string" } }
    \cup { StringValue(s) : s \in IdentifierStrings }

\* values of the metadata property; `others` tells whether it holds further
\* properties (generated_at, dbt_version, ...)
MetadataValues ==
  { [kind |-> v.kind, truthy |-> v.truthy, hasVersion |-> FALSE,
     dbt_schema_version |-> UndefinedIdentifier, others |-> FALSE] :
      v \in Plain }
    \cup { [kind |-> "object", truthy |-> TRUE, hasVersion |-> FALSE,
             dbt_schema_version |-> UndefinedIdentifier, others |-> TRUE] }
    \cup { [kind |-> "object", truthy |-> TRUE, hasVersion |-> TRUE,
             dbt_schema_version |-> d, others |-> o] :
             d \in IdentifierValues, o \in BOOLEAN }

\* the values a caller may pass; `others` tells whether the object holds
\* further top-level properties (results, elapsed_time, nodes, ...)
Inputs ==
  { [kind |-> v.kind, truthy |-> v.truthy, hasMetadata |-> FALSE,
     metadata |-> UndefinedMetadata, others |-> FALSE] :
      v \in Plain }
    \cup { [kind |-> "object", truthy |-> TRUE, hasMetadata |-> FALSE,
             metadata |-> UndefinedMetadata, others |-> TRUE] }
    \cup { [kind |-> "object", truthy |-> TRUE, hasMetadata |-> TRUE, metadata |-> m, others |-> o] :
             m \in MetadataValues, o \in BOOLEAN }

UndefinedInput ==
  [kind |-> "undefined", truthy |-> FALSE, hasMetadata |-> FALSE,
   metadata |-> UndefinedMetadata, others |-> FALSE]

(***************************************************************************)
(* Outcomes of a call.                                                     *)
(***************************************************************************)
NoVersion == -1

NoResult ==
  [status |-> "none", tag |-> "", value |-> UndefinedInput, ref |-> "none",
   errorClass |-> "", message |-> <<>>]

\* mutant: the parser returns a copy of its argument, { ...x }
ReturnedCopy(tag, x) ==
  [status |-> "returned", tag |-> tag, value |-> x, ref |-> "copy",
   errorClass |-> "", message |-> <<>>]

\* `return x as unknown as <tag>Type`: the reference the parameter holds,
\* relabeled; the type assertion is erased at run time
Returned(tag, x) ==
  [status |-> "returned", tag |-> tag, value |-> x, ref |-> "argument",
   errorClass |-> "", message |-> <<>>]

\* `throw new Error(message)`
Thrown(message) ==
  [status |-> "thrown", tag |-> "", value |-> UndefinedInput, ref |-> "none",
   errorClass |-> "Error", message |-> message]

\* a TypeError raised by the engine (message texts as V8 words them)
EngineTypeError(message) ==
  [status |-> "thrown", tag |-> "", value |-> UndefinedInput, ref |-> "none",
   errorClass |-> "TypeError", message |-> message]

CannotReadMetadata == <<"C","a","n","n","o","t"," ","r","e","a","d"," ","p","r","o","p","e","r","t","i","e","s"," ","o","f"," ","u","n","d","e","f","i","n","e","d"," ","(","r","e","a","d","i","n","g"," ","'","m","e","t","a","d","a","t","a","'",")">>
CannotReadMatch == <<"C","a","n","n","o","t"," ","r","e","a","d"," ","p","r","o","p","e","r","t","i","e","s"," ","o","f"," ","u","n","d","e","f","i","n","e","d"," ","(","r","e","a","d","i","n","g"," ","'","m","a","t","c","h","'",")">>
CannotUseIn == <<"C","a","n","n","o","t"," ","u","s","e"," ","'","i","n","'"," ","o","p","e","r","a","t","o","r">>
MatchNotFunction == <<"d","b","t","S","c","h","e","m","a","V","e","r","s","i","o","n",".","m","a","t","c","h"," ","i","s"," ","n","o","t"," ","a"," ","f","u","n","c","t","i","o","n">>

(***************************************************************************)
(* The structural guard, as each generation writes it.                     *)
(***************************************************************************)
\* mutant: the helper tests the presence of dbt_schema_version, not its type
HelperGuardFailsOnKeyOnly(x) ==
  \/ ~Truthy(x) \/ TypeOf(x) # "object" \/ ~HasMetadata(x)
  \/ LET metadata == Metadata(x)
     IN \/ ~Truthy(metadata)
        \/ TypeOf(metadata) # "object"
        \/ ~HasSchemaVersion(metadata)

\* mutant: the helper also asks for a body beside the metadata
HelperGuardFailsWithoutBody(x) ==
  \/ ~Truthy(x) \/ TypeOf(x) # "object" \/ ~HasMetadata(x) \/ ~x.others
  \/ LET metadata == Metadata(x)
     IN \/ ~Truthy(metadata)
        \/ TypeOf(metadata) # "object"
        \/ TypeOf(SchemaVersion(metadata)) # "string"

\* validate<Category>AndGetVersion: the two guarding ifs
HelperGuardFails(x) ==
  \/ ~Truthy(x) \/ TypeOf(x) # "object" \/ ~HasMetadata(x)
  \/ LET metadata == Metadata(x)
     IN \/ ~Truthy(metadata)
        \/ TypeOf(metadata) # "object"
        \/ TypeOf(SchemaVersion(metadata)) # "string"

\* parse<Category> of the inline generation: the three guarding ifs
InlineGuardFails(x) ==
  \/ ~Truthy(x) \/ TypeOf(x) # "object" \/ ~HasMetadata(x)
  \/ LET metadata == Metadata(x)
     IN \/ ~Truthy(metadata) \/ TypeOf(metadata) # "object" \/ ~HasSchemaVersion(metadata)
        \/ TypeOf(SchemaVersion(metadata)) # "string"

\* "key" in v throws a TypeError when v is not an object
InThrows(v) == v.kind \notin {"array", "object"}

\* mutant: the guard without its typeof test, so that `in` meets primitives
HelperGuardThrowsWithoutTypeof(x) == Truthy(x) /\ InThrows(x)

\* validate<Category>AndGetVersion: || evaluates "metadata" in x only when x
\* is truthy and typeof x is "object"
HelperGuardThrows(x) == Truthy(x) /\ TypeOf(x) = "object" /\ InThrows(x)

\* parse<Category> of the inline generation: the same for "metadata" in x, and
\* for "dbt_schema_version" in metadata once the first if has let x pass
InlineGuardThrows(x) ==
  \/ Truthy(x) /\ TypeOf(x) = "object" /\ InThrows(x)
  \/ /\ Truthy(x) /\ TypeOf(x) = "object" /\ HasMetadata(x)
     /\ LET metadata == Metadata(x)
        IN Truthy(metadata) /\ TypeOf(metadata) = "object" /\ InThrows(metadata)

\* parse<Category>V<k> of the inline generation calls get<Category>Version at once
HasGuard(p) == p.gen = "helper" \/ p.pinned = 0

GuardFails(p, x) == IF p.gen = "helper" THEN HelperGuardFails(x) ELSE InlineGuardFails(x)

GuardThrows(p, x) == IF p.gen = "helper" THEN HelperGuardThrows(x) ELSE InlineGuardThrows(x)

(***************************************************************************)
(* The version extractor.                                                  *)
(***************************************************************************)
\* get<Category>Version(id): [version] or [error]
GetVersion(cat, id) ==
  IF id.kind \in {"undefined", "null"}
  THEN [ok |-> FALSE, version |-> NoVersion, error |-> EngineTypeError(CannotReadMatch)]
  ELSE IF id.kind # "string"
  THEN [ok |-> FALSE, version |-> NoVersion, error |-> EngineTypeError(MatchNotFunction)]
  ELSE LET match == RegexMatch(Segment(cat), id.str)
       IN IF match = <<>>
          THEN [ok |-> FALSE, version |-> NoVersion, error |-> Thrown(InvalidFormatMessage(id.str))]
          ELSE [ok |-> TRUE, version |-> ParseInt(match), error |-> NoResult]

\* get<Category>Version((x.metadata as any)?.dbt_schema_version) of the inline
\* pinned parsers: reading .metadata of undefined or null throws, ?. yields
\* undefined for an undefined or null metadata
GetVersionUnguarded(cat, x) ==
  IF x.kind \in {"undefined", "null"}
  THEN [ok |-> FALSE, version |-> NoVersion, error |-> EngineTypeError(CannotReadMetadata)]
  ELSE LET metadata == Metadata(x)
       IN IF metadata.kind \in {"undefined", "null"}
          THEN GetVersion(cat, UndefinedIdentifier)
          ELSE GetVersion(cat, SchemaVersion(metadata))

(***************************************************************************)
(* The dispatch table and the expected-version check.                      *)
(***************************************************************************)
\* mutant: the default branch casts to the latest version instead of throwing
SwitchDefaultingToLatest(cat, v, x) ==
  IF v \in DOMAIN SwitchCases(cat)
  THEN Returned(SwitchCases(cat)[v], x)
  ELSE Returned(SwitchCases(cat)[Len(SwitchCases(cat))], x)

\* mutant: the parser works once per process; after a call whose outcome the
\* caller kept, a hidden flag makes the switch fall to its default branch
SwitchOncePerProcess(cat, v, x) ==
  IF remembered.kept
  THEN Thrown(UnsupportedMessage(cat, v))
  ELSE IF v \in DOMAIN SwitchCases(cat)
  THEN Returned(SwitchCases(cat)[v], x)
  ELSE Thrown(UnsupportedMessage(cat, v))

\* mutant: the extracted version is kept in a module-level variable, which
\* the switch reads; a call in progress at the same time overwrites it
SwitchOnSharedVersion(cat, v, x) ==
  LET shared == IF version # NoVersion THEN version ELSE v
  IN IF shared \in DOMAIN SwitchCases(cat)
     THEN Returned(SwitchCases(cat)[shared], x)
     ELSE Thrown(UnsupportedMessage(cat, shared))

\* switch (version) of parse<Category>, on the argument x
Switch(cat, v, x) ==
  IF v \in DOMAIN SwitchCases(cat)
  THEN Returned(SwitchCases(cat)[v], x)
  ELSE Thrown(UnsupportedMessage(cat, v))

\* mutant: parseManifestV11 was copied from parseManifestV12 and still passes 12
ExpectedVersionCopied(p) ==
  IF p.cat = "manifest" /\ p.pinned = 11 THEN 12 ELSE PinnedParsers(p.cat)[p.pinned].expected

\* version !== expectedVersion of parse<Category>V<k>
ExpectedVersion(p) == PinnedParsers(p.cat)[p.pinned].expected

\* mutant: the comparison written as version < expectedVersion
VersionMismatchBelowOnly(p, v) == v < ExpectedVersion(p)

VersionMismatch(p, v) == v # ExpectedVersion(p)

ReturnType(p) == PinnedParsers(p.cat)[p.pinned].returns

\* mutant: the pinned parser consults the dispatch table before comparing
PinnedCheckAfterDispatch(p, v, x) ==
  IF v \notin DOMAIN SwitchCases(p.cat)
  THEN Thrown(UnsupportedMessage(p.cat, v))
  ELSE IF VersionMismatch(p, v)
  THEN Thrown(MismatchMessage(p.cat, ExpectedVersion(p)))
  ELSE Returned(ReturnType(p), x)

\* the tail of parse<Category>V<k>: the comparison, then the cast
PinnedCheck(p, v, x) ==
  IF VersionMismatch(p, v)
  THEN Thrown(MismatchMessage(p.cat, ExpectedVersion(p)))
  ELSE Returned(ReturnType(p), x)

\* the extraction step of parser p
ExtractStage(p, x) ==
  IF HasGuard(p)
  THEN GetVersion(p.cat, SchemaVersion(Metadata(x)))
  ELSE GetVersionUnguarded(p.cat, x)

\* the whole call p(x), as the composition of its stages
Run(p, x) ==
  IF HasGuard(p) /\ GuardThrows(p, x)
  THEN EngineTypeError(CannotUseIn)
  ELSE IF HasGuard(p) /\ GuardFails(p, x)
  THEN Thrown(NotArtifactMessage(p.cat))
  ELSE LET got == ExtractStage(p, x)
       IN IF ~got.ok THEN got.error
          ELSE IF p.pinned # 0 THEN PinnedCheck(p, got.version, x)
          ELSE Switch(p.cat, got.version, x)

(***************************************************************************)
(* scripts/preprocess-refs.js: what a run of the script is given.          *)
(***************************************************************************)
\* process.argv[i]: absent, the empty string, or a path
Arguments == {"undefined", "empty", "path"}

\* !a is false for a non-empty string only
ArgumentTruthy(a) == a = "path"

\* the arguments are positional: none follows an absent one
CommandLines ==
  { c \in [inputFile : Arguments, outputFile : Arguments, cwd : Arguments] :
      /\ c.inputFile = "undefined" => c.outputFile = "undefined"
      /\ c.outputFile = "undefined" => c.cwd = "undefined" }

\* values of a root-level $ref: a JSON pointer into the document, the
\* document itself, a pointer into another file
LocalPointer == <<"#", "/", "$", "d", "e", "f", "s", "/", "M">>
WholeDocument == <<"#">>
OtherFile == <<"d", ".", "j", "s", "o", "n", "#", "/", "M">>

RefStrings == {<<>>, LocalPointer, WholeDocument, OtherFile}

\* schema.$ref: absent, a string, or another JSON value
RootRefs ==
  {UndefinedIdentifier}
    \cup { StringValue(s) : s \in RefStrings }
    \cup { [kind |-> k, truthy |-> TRUE, str |-> <<>>] : k \in {"number", "object"} }
    \cup { [kind |-> "null", truthy |-> FALSE, str |-> <<>>] }

\* JSON.parse of the input file: any JSON value, an object with or without $ref
Schemas ==
  { [kind |-> k, ref |-> UndefinedIdentifier] : k \in {"null", "boolean", "number", "string", "array"} }
    \cup { [kind |-> "object", ref |-> r] : r \in RootRefs }

\* the file system and the library, as far as the script depends on them:
\* the input can be read, is JSON, holds a schema whose references resolve
\* and whose dereferenced form JSON.stringify accepts; the output can be written
Environments ==
  [readable : BOOLEAN, wellFormed : BOOLEAN, schema : Schemas,
   resolvable : BOOLEAN, serialisable : BOOLEAN, writable : BOOLEAN]

\* v.$ref throws a TypeError when v is null
PropertyReadThrows(v) == v.kind \in {"undefined", "null"}

\* schema.$ref.startsWith("#/")
StartsWithHashSlash(s) == Len(s) >= 2 /\ SubSeq(s, 1, 2) = <<"#", "/">>

\* mutant: every truthy $ref counts as a root-level reference
HasRootRefAnyValue(schema) == Truthy(schema.ref)

\* schema.$ref && typeof schema.$ref === "string" && schema.$ref.startsWith("#/")
HasRootRef(schema) ==
  /\ Truthy(schema.ref)
  /\ TypeOf(schema.ref) = "string"
  /\ StartsWithHashSlash(schema.ref.str)

\* the script has not been started
NotLaunched ==
  [pc |-> "NotLaunched",
   argv |-> [inputFile |-> "undefined", outputFile |-> "undefined", cwd |-> "undefined"],
   env |-> [readable |-> FALSE, wellFormed |-> FALSE,
            schema |-> [kind |-> "null", ref |-> UndefinedIdentifier],
            resolvable |-> FALSE, serialisable |-> FALSE, writable |-> FALSE],
   hasRootRef |-> FALSE, output |-> "none", exited |-> FALSE, status |-> 0, stderr |-> "none"]

(***************************************************************************)
(* The script that generates the types: what process_category is given.    *)
(***************************************************************************)
\* the *.json files a resource directory may hold, without the suffix, in
\* the order of the glob
SchemaFiles ==
  << <<"m">>, <<"m", "_", "v">>, <<"m", "_", "v", "1">>,
     <<"m", "_", "v", "1", "0">>, <<"m", "_", "v", "2">> >>

UnderscoreV == <<"_", "v">>

\* mutant: sed -n with the p flag, which prints nothing when nothing matches
ExtractVersionOrNothing(basename) ==
  LET n == DigitRun(basename)
  IN IF n >= 1 /\ EndsWith(DropLast(basename, n), UnderscoreV)
     THEN SubSeq(basename, Len(basename) - n + 1, Len(basename))
     ELSE <<>>

\* echo "$basename" | sed -E 's/.*_v([0-9]+)$/\1/': the digits when the name
\* ends in _v<digits>; sed prints a line it cannot substitute in unchanged
ExtractVersion(basename) ==
  LET n == DigitRun(basename)
  IN IF n >= 1 /\ EndsWith(DropLast(basename, n), UnderscoreV)
     THEN SubSeq(basename, Len(basename) - n + 1, Len(basename))
     ELSE basename

\* "v$version"
VersionName(v) == <<"v">> \o v

\* sort -V orders the characters outside the digit runs: the end of the run
\* first, then letters, then the other characters
CharOrder(c) ==
  CASE c \in DigitChars -> 0 [] c = "m" -> 109 [] c = "v" -> 118 [] c = "_" -> 351

OrderAt(s, i) == IF i > Len(s) THEN 0 ELSE CharOrder(s[i])

NumericSuffix(s) ==
  LET n == DigitRun(s)
  IN IF n = 0 THEN 0 ELSE ParseInt(SubSeq(s, Len(s) - n + 1, Len(s)))

\* a sorts before b under sort -V, for names whose digits are at the end
VersionLess(a, b) ==
  LET longest == IF Len(a) > Len(b) THEN Len(a) ELSE Len(b)
      differs == { i \in 1..longest : OrderAt(a, i) # OrderAt(b, i) }
  IN IF differs # {}
     THEN LET first == CHOOSE i \in differs : \A j \in differs : i <= j
          IN OrderAt(a, first) < OrderAt(b, first)
     ELSE NumericSuffix(a) < NumericSuffix(b)

RECURSIVE InsertVersion(_, _)
InsertVersion(v, s) ==
  IF s = <<>> THEN <<v>>
  ELSE IF VersionLess(v, Head(s)) THEN <<v>> \o s
  ELSE <<Head(s)>> \o InsertVersion(v, Tail(s))

\* printf '%s\n' "${versions[@]}" | sort -V
RECURSIVE SortV(_)
SortV(s) == IF s = <<>> THEN <<>> ELSE InsertVersion(Head(s), SortV(Tail(s)))

\* process_category has not been called
NotStarted ==
  [pc |-> "NotStarted", pending |-> <<>>, done |-> {}, warned |-> {},
   versions |-> <<>>, indexWritten |-> FALSE, index |-> <<>>]

(***************************************************************************)
(* One call, stage by stage.                                               *)
(***************************************************************************)
Terminal == {"Dispatched", "Rejected"}

NoParser == [cat |-> "manifest", gen |-> "helper", pinned |-> 0]

\* the caller has kept no outcome yet
NothingRemembered == [kept |-> FALSE, parser |-> NoParser, arg |-> UndefinedInput, result |-> NoResult]

\* no second call is in progress
NoSecondCall ==
  [pc |-> "Idle", parser |-> NoParser, arg |-> UndefinedInput, version |-> NoVersion, result |-> NoResult]

Init ==
  /\ pc = "Idle"
  /\ parser = NoParser
  /\ arg = UndefinedInput
  /\ version = NoVersion
  /\ result = NoResult
  /\ trace = <<>>
  /\ before = UndefinedInput
  /\ remembered = NothingRemembered
  /\ second = NoSecondCall
  /\ preprocess = NotLaunched
  /\ typegen = NotStarted

\* a caller calls one of the exported parsers
Call(p, x) ==
  /\ pc' = "Start"
  /\ parser' = p
  /\ arg' = x
  /\ version' = NoVersion
  /\ result' = NoResult
  /\ trace' = <<"Start">>
  /\ before' = x
  /\ UNCHANGED <<remembered, second, preprocess, typegen>>

CallAny == pc = "Idle" /\ \E p \in Parsers, x \in Inputs : Call(p, x)

Reject(error) ==
  /\ pc' = "Rejected"
  /\ result' = error
  /\ trace' = Append(trace, "Rejected")

\* mutant: a failing guard is tried again instead of throwing
GuardRetrying ==
  /\ pc = "Start"
  /\ HasGuard(parser)
  /\ IF GuardThrows(parser, arg)
     THEN Reject(EngineTypeError(CannotUseIn))
     ELSE IF GuardFails(parser, arg)
     THEN UNCHANGED <<pc, result, trace>>
     ELSE /\ pc' = "StructurallyValid"
          /\ trace' = Append(trace, "StructurallyValid")
          /\ UNCHANGED result
  /\ UNCHANGED <<parser, arg, version, before, remembered, second, preprocess, typegen>>

\* the structural guard
Guard ==
  /\ pc = "Start"
  /\ HasGuard(parser)
  /\ IF GuardThrows(parser, arg)
     THEN Reject(EngineTypeError(CannotUseIn))
     ELSE IF GuardFails(parser, arg)
     THEN Reject(Thrown(NotArtifactMessage(parser.cat)))
     ELSE /\ pc' = "StructurallyValid"
          /\ trace' = Append(trace, "StructurallyValid")
          /\ UNCHANGED result
  /\ UNCHANGED <<parser, arg, version, before, remembered, second, preprocess, typegen>>

\* get<Category>Version on the guarded identifier
Extract ==
  /\ pc = "StructurallyValid"
  /\ LET got == ExtractStage(parser, arg)
     IN IF got.ok
        THEN /\ pc' = "VersionExtracted"
             /\ version' = got.version
             /\ trace' = Append(trace, "VersionExtracted")
             /\ UNCHANGED result
        ELSE /\ Reject(got.error)
             /\ UNCHANGED version
  /\ UNCHANGED <<parser, arg, before, remembered, second, preprocess, typegen>>

\* get<Category>Version of an inline pinned parser, with no guard before it
ExtractUnguarded ==
  /\ pc = "Start"
  /\ ~HasGuard(parser)
  /\ LET got == ExtractStage(parser, arg)
     IN IF got.ok
        THEN /\ pc' = "VersionExtracted"
             /\ version' = got.version
             /\ trace' = Append(trace, "VersionExtracted")
             /\ UNCHANGED result
        ELSE /\ Reject(got.error)
             /\ UNCHANGED version
  /\ UNCHANGED <<parser, arg, before, remembered, second, preprocess, typegen>>

Conclude(outcome) ==
  IF outcome.status = "returned"
  THEN /\ pc' = "Dispatched"
       /\ result' = outcome
       /\ trace' = Append(trace, "Dispatched")
  ELSE Reject(outcome)

\* the expected-version check of a pinned parser, and its return
CheckExpected ==
  /\ pc = "VersionExtracted"
  /\ parser.pinned # 0
  /\ Conclude(PinnedCheck(parser, version, arg))
  /\ UNCHANGED <<parser, arg, version, before, remembered, second, preprocess, typegen>>

\* mutant: the auto-detect parser records that it has looked at the
\* argument, by setting a property of it
DispatchMarkingArgument ==
  /\ pc = "VersionExtracted"
  /\ parser.pinned = 0
  /\ Conclude(Switch(parser.cat, version, arg))
  /\ arg' = [arg EXCEPT !.others = TRUE]
  /\ UNCHANGED <<parser, version, before, remembered, second, preprocess, typegen>>

\* the switch of the auto-detect parser
Dispatch ==
  /\ pc = "VersionExtracted"
  /\ parser.pinned = 0
  /\ Conclude(Switch(parser.cat, version, arg))
  /\ UNCHANGED <<parser, arg, version, before, remembered, second, preprocess, typegen>>

\* the caller has the value or the error; the next call starts afresh
Finish ==
  /\ pc \in Terminal
  /\ pc' = "Idle"
  /\ parser' = NoParser
  /\ arg' = UndefinedInput
  /\ version' = NoVersion
  /\ result' = NoResult
  /\ trace' = <<>>
  /\ before' = UndefinedInput
  /\ UNCHANGED <<remembered, second, preprocess, typegen>>

Next ==
  \/ CallAny
  \/ Guard
  \/ Extract
  \/ ExtractUnguarded
  \/ CheckExpected
  \/ Dispatch
  \/ Finish

Spec == Init /\ [][Next]_vars

(***************************************************************************)
(* Every call ends: the parsers are synchronous functions, so a call that  *)
(* has begun takes its next step.                                          *)
(***************************************************************************)
StepOfCall == Guard \/ Extract \/ ExtractUnguarded \/ CheckExpected \/ Dispatch

(***************************************************************************)
(* Sequences of calls and simultaneous calls, on representative inputs:    *)
(* {metadata: {}} and objects holding nothing but the identifier, of each  *)
(* category and of an unsupported version.                                 *)
(***************************************************************************)
\* { metadata: { dbt_schema_version: id } }
OnlyIdentifier(id) ==
  [kind |-> "object", truthy |-> TRUE, hasMetadata |-> TRUE, others |-> FALSE,
   metadata |-> [kind |-> "object", truthy |-> TRUE, hasVersion |-> TRUE,
                 dbt_schema_version |-> StringValue(id), others |-> FALSE]]

EmptyMetadata ==
  [kind |-> "object", truthy |-> TRUE, hasMetadata |-> TRUE, others |-> FALSE,
   metadata |-> [kind |-> "object", truthy |-> TRUE, hasVersion |-> FALSE,
                 dbt_schema_version |-> UndefinedIdentifier, others |-> FALSE]]

RepresentativeInputs ==
  { EmptyMetadata,
    OnlyIdentifier(Versioned(SchemaPrefix, ManifestSegment, 0, 1)),
    OnlyIdentifier(Versioned(SchemaPrefix, ManifestSegment, 0, FarVersion)),
    OnlyIdentifier(Versioned(SchemaPrefix, CatalogSegment, 0, 1)),
    OnlyIdentifier(Versioned(SchemaPrefix, RunResultsSegment, 0, 6)),
    OnlyIdentifier(Versioned(SchemaPrefix, SourcesSegment, 0, 3)) }

CallRepresentative ==
  pc = "Idle" /\ \E p \in Parsers, x \in RepresentativeInputs : Call(p, x)

\* the representative inputs, undefined, and the same objects with a body
\* and further metadata
InputsWithBody ==
  RepresentativeInputs \cup {UndefinedInput}
    \cup { [x EXCEPT !.others = TRUE, !.metadata.others = TRUE] : x \in RepresentativeInputs }

CallWithBody ==
  pc = "Idle" /\ \E p \in Parsers, x \in InputsWithBody : Call(p, x)

NextFair ==
  \/ CallWithBody
  \/ Guard
  \/ Extract
  \/ ExtractUnguarded
  \/ CheckExpected
  \/ Dispatch
  \/ Finish

SpecFair == Init /\ [][NextFair]_vars /\ WF_vars(StepOfCall)

\* the call has ended and the caller keeps its outcome, to compare a later
\* call with
FinishRemembering ==
  /\ pc \in Terminal
  /\ ~remembered.kept
  /\ remembered' = [kept |-> TRUE, parser |-> parser, arg |-> arg, result |-> result]
  /\ pc' = "Idle"
  /\ parser' = NoParser
  /\ arg' = UndefinedInput
  /\ version' = NoVersion
  /\ result' = NoResult
  /\ trace' = <<>>
  /\ before' = UndefinedInput
  /\ UNCHANGED <<second, preprocess, typegen>>

NextHistory ==
  \/ CallRepresentative
  \/ Guard
  \/ Extract
  \/ ExtractUnguarded
  \/ CheckExpected
  \/ Dispatch
  \/ Finish
  \/ FinishRemembering

SpecHistory == Init /\ [][NextHistory]_vars

\* a second caller calls one of the exported parsers while a call is in
\* progress; its parameters and locals are its own
SecondCall ==
  /\ second.pc = "Idle"
  /\ \E p \in Parsers, x \in RepresentativeInputs :
       second' = [pc |-> "Start", parser |-> p, arg |-> x, version |-> NoVersion,
                  result |-> NoResult]
  /\ UNCHANGED <<pc, parser, arg, version, result, trace, before, remembered, preprocess, typegen>>

SecondGuard ==
  /\ second.pc = "Start"
  /\ HasGuard(second.parser)
  /\ second' =
       IF GuardThrows(second.parser, second.arg)
       THEN [second EXCEPT !.pc = "Rejected", !.result = EngineTypeError(CannotUseIn)]
       ELSE IF GuardFails(second.parser, second.arg)
       THEN [second EXCEPT !.pc = "Rejected",
                           !.result = Thrown(NotArtifactMessage(second.parser.cat))]
       ELSE [second EXCEPT !.pc = "StructurallyValid"]
  /\ UNCHANGED <<pc, parser, arg, version, result, trace, before, remembered, preprocess, typegen>>

SecondExtract ==
  /\ second.pc = IF HasGuard(second.parser) THEN "StructurallyValid" ELSE "Start"
  /\ LET got == ExtractStage(second.parser, second.arg)
     IN second' =
          IF got.ok
          THEN [second EXCEPT !.pc = "VersionExtracted", !.version = got.version]
          ELSE [second EXCEPT !.pc = "Rejected", !.result = got.error]
  /\ UNCHANGED <<pc, parser, arg, version, result, trace, before, remembered, preprocess, typegen>>

SecondCheckExpected ==
  /\ second.pc = "VersionExtracted"
  /\ second.parser.pinned # 0
  /\ LET outcome == PinnedCheck(second.parser, second.version, second.arg)
     IN second' =
          [second EXCEPT !.pc = IF outcome.status = "returned" THEN "Dispatched" ELSE "Rejected",
                         !.result = outcome]
  /\ UNCHANGED <<pc, parser, arg, version, result, trace, before, remembered, preprocess, typegen>>

SecondDispatch ==
  /\ second.pc = "VersionExtracted"
  /\ second.parser.pinned = 0
  /\ LET outcome == Switch(second.parser.cat, second.version, second.arg)
     IN second' =
          [second EXCEPT !.pc = IF outcome.status = "returned" THEN "Dispatched" ELSE "Rejected",
                         !.result = outcome]
  /\ UNCHANGED <<pc, parser, arg, version, result, trace, before, remembered, preprocess, typegen>>

SecondFinish ==
  /\ second.pc \in Terminal
  /\ second' = NoSecondCall
  /\ UNCHANGED <<pc, parser, arg, version, result, trace, before, remembered, preprocess, typegen>>

NextConcurrent ==
  \/ CallRepresentative
  \/ Guard
  \/ Extract
  \/ ExtractUnguarded
  \/ CheckExpected
  \/ Dispatch
  \/ Finish
  \/ SecondCall
  \/ SecondGuard
  \/ SecondExtract
  \/ SecondCheckExpected
  \/ SecondDispatch
  \/ SecondFinish

SpecConcurrent == Init /\ [][NextConcurrent]_vars

(***************************************************************************)
(* scripts/preprocess-refs.js, statement by statement.                     *)
(***************************************************************************)
\* process.exit(status), or the end of the process on an uncaught exception
Exit(status, stderr, output) ==
  preprocess' = [preprocess EXCEPT !.pc = "Exited", !.exited = TRUE,
                                   !.status = status, !.stderr = stderr, !.output = output]

\* node preprocess-refs.js <input-file> <output-file> [cwd]
Launch ==
  /\ preprocess.pc = "NotLaunched"
  /\ \E c \in CommandLines, e \in Environments :
       preprocess' = [preprocess EXCEPT !.pc = "Arguments", !.argv = c, !.env = e]
  /\ UNCHANGED <<calls, typegen>>

\* the three constants: path.dirname(undefined) throws outside any try
ReadArguments ==
  /\ preprocess.pc = "Arguments"
  /\ IF ~ArgumentTruthy(preprocess.argv.cwd) /\ preprocess.argv.inputFile = "undefined"
     THEN Exit(1, "uncaught", "none")
     ELSE preprocess' = [preprocess EXCEPT !.pc = "Check"]
  /\ UNCHANGED <<calls, typegen>>

\* if (!inputFile || !outputFile): the usage message
CheckArguments ==
  /\ preprocess.pc = "Check"
  /\ IF ~ArgumentTruthy(preprocess.argv.inputFile) \/ ~ArgumentTruthy(preprocess.argv.outputFile)
     THEN Exit(1, "usage", "none")
     ELSE preprocess' = [preprocess EXCEPT !.pc = "Read"]
  /\ UNCHANGED <<calls, typegen>>

\* JSON.parse(fs.readFileSync(inputPath, "utf8")), inside the try
ReadSchema ==
  /\ preprocess.pc = "Read"
  /\ IF ~preprocess.env.readable \/ ~preprocess.env.wellFormed
     THEN Exit(1, "error", "none")
     ELSE preprocess' = [preprocess EXCEPT !.pc = "Inspect"]
  /\ UNCHANGED <<calls, typegen>>

\* const hasRootRef = ...; if (hasRootRef)
InspectRoot ==
  /\ preprocess.pc = "Inspect"
  /\ IF PropertyReadThrows(preprocess.env.schema)
     THEN Exit(1, "error", "none")
     ELSE preprocess' =
            [preprocess EXCEPT !.hasRootRef = HasRootRef(preprocess.env.schema),
                               !.pc = IF HasRootRef(preprocess.env.schema)
                                      THEN "Dereference" ELSE "Copy"]
  /\ UNCHANGED <<calls, typegen>>

\* await $RefParser.dereference(inputPath, options)
Dereference ==
  /\ preprocess.pc = "Dereference"
  /\ IF ~preprocess.env.resolvable
     THEN Exit(1, "error", "none")
     ELSE preprocess' = [preprocess EXCEPT !.pc = "Write"]
  /\ UNCHANGED <<calls, typegen>>

\* fs.writeFileSync(outputFile, JSON.stringify(dereferenced, null, 2)), then
\* process.exit(0)
WriteDereferenced ==
  /\ preprocess.pc = "Write"
  /\ IF ~preprocess.env.serialisable \/ ~preprocess.env.writable
     THEN Exit(1, "error", "none")
     ELSE Exit(0, "none", "dereferenced")
  /\ UNCHANGED <<calls, typegen>>

\* fs.copyFileSync(inputPath, outputFile), then process.exit(0)
CopyAsIs ==
  /\ preprocess.pc = "Copy"
  /\ IF ~preprocess.env.writable
     THEN Exit(1, "error", "none")
     ELSE Exit(0, "none", "copy")
  /\ UNCHANGED <<calls, typegen>>

NextPreprocess ==
  \/ Launch
  \/ ReadArguments
  \/ CheckArguments
  \/ ReadSchema
  \/ InspectRoot
  \/ Dereference
  \/ WriteDereferenced
  \/ CopyAsIs

SpecPreprocess == Init /\ [][NextPreprocess]_vars

(***************************************************************************)
(* process_category of the script that generates the types.                *)
(***************************************************************************)
\* what can happen to one schema file after its output name is known
FileOutcomes == {"preprocess fails", "json2ts fails", "no output file", "generated"}

\* process_category "<category>" "<output_dir>": the resource directory is
\* missing, or holds some of the schema files
ProcessCategory ==
  /\ typegen.pc = "NotStarted"
  /\ \/ typegen' = [typegen EXCEPT !.pc = "Done"]
     \/ \E files \in SUBSET { SchemaFiles[i] : i \in DOMAIN SchemaFiles } :
          LET Held(name) == name \in files
          IN typegen' = [typegen EXCEPT !.pc = "Loop", !.pending = SelectSeq(SchemaFiles, Held)]
  /\ UNCHANGED <<calls, preprocess>>

\* one iteration of the for loop
GenerateFile ==
  /\ typegen.pc = "Loop"
  /\ typegen.pending # <<>>
  /\ LET name == Head(typegen.pending)
         extracted == ExtractVersion(name)
     IN IF extracted = <<>>
        THEN typegen' = [typegen EXCEPT !.pending = Tail(typegen.pending),
                                        !.warned = typegen.warned \cup {name}]
        ELSE \E outcome \in FileOutcomes :
               typegen' =
                 [typegen EXCEPT
                    !.pending = Tail(typegen.pending),
                    !.done = typegen.done \cup {[name |-> name, outcome |-> outcome]},
                    !.versions = IF outcome = "generated"
                                 THEN Append(typegen.versions, VersionName(extracted))
                                 ELSE typegen.versions]
  /\ UNCHANGED <<calls, preprocess>>

\* versions=($(printf '%s\n' "${versions[@]}" | sort -V)); under set -u a
\* bash older than 4.4 stops at the expansion of an empty array
SortVersions ==
  /\ typegen.pc = "Loop"
  /\ typegen.pending = <<>>
  /\ IF typegen.versions = <<>>
     THEN \E stops \in BOOLEAN :
            typegen' = [typegen EXCEPT !.pc = IF stops THEN "Aborted" ELSE "Sorted"]
     ELSE typegen' = [typegen EXCEPT !.pc = "Sorted", !.versions = SortV(typegen.versions)]
  /\ UNCHANGED <<calls, preprocess>>

\* if [ ${#versions[@]} -gt 0 ]: index.ts exports ${versions[-1]}
WriteIndex ==
  /\ typegen.pc = "Sorted"
  /\ IF Len(typegen.versions) > 0
     THEN typegen' = [typegen EXCEPT !.pc = "Done", !.indexWritten = TRUE,
                                     !.index = typegen.versions[Len(typegen.versions)]]
     ELSE typegen' = [typegen EXCEPT !.pc = "Done"]
  /\ UNCHANGED <<calls, preprocess>>

NextTypegen ==
  \/ ProcessCategory
  \/ GenerateFile
  \/ SortVersions
  \/ WriteIndex

SpecTypegen == Init /\ [][NextTypegen]_vars

(***************************************************************************)
(* The vocabulary of the claims: what the specification says of inputs and *)
(* messages, written without the operators that model the code.            *)
(***************************************************************************)
\* the highest supported version of each category
HighestVersion(cat) ==
  CASE cat = "manifest" -> 12 [] cat = "catalog" -> 1 [] cat = "run_results" -> 6 [] cat = "sources" -> 3

\* "/<category-path-segment>/v", the wire format
WirePath(cat) ==
  CASE cat = "manifest" -> <<"/","m","a","n","i","f","e","s","t","/","v">>
    [] cat = "catalog" -> <<"/","c","a","t","a","l","o","g","/","v">>
    [] cat = "run_results" -> <<"/","r","u","n","-","r","e","s","u","l","t","s","/","v">>
    [] cat = "sources" -> <<"/","s","o","u","r","c","e","s","/","v">>

\* "Not a {artifact}.json"
NotArtifactText(cat) ==
  CASE cat = "manifest" -> <<"N","o","t"," ","a"," ","m","a","n","i","f","e","s","t",".","j","s","o","n">>
    [] cat = "catalog" -> <<"N","o","t"," ","a"," ","c","a","t","a","l","o","g",".","j","s","o","n">>
    [] cat = "run_results" -> <<"N","o","t"," ","a"," ","r","u","n","-","r","e","s","u","l","t","s",".","j","s","o","n">>
    [] cat = "sources" -> <<"N","o","t"," ","a"," ","s","o","u","r","c","e","s",".","j","s","o","n">>

\* "Not a {artifact}.json v{k}"
MismatchText(cat, k) == NotArtifactText(cat) \o <<" ", "v">> \o Numeral(k)

\* "Unsupported {artifact} version: {k}"
UnsupportedText(cat, k) ==
  (
  CASE cat = "manifest" -> <<"U","n","s","u","p","p","o","r","t","e","d"," ","m","a","n","i","f","e","s","t"," ","v","e","r","s","i","o","n",":"," ">>
    [] cat = "catalog" -> <<"U","n","s","u","p","p","o","r","t","e","d"," ","c","a","t","a","l","o","g"," ","v","e","r","s","i","o","n",":"," ">>
    [] cat = "run_results" -> <<"U","n","s","u","p","p","o","r","t","e","d"," ","r","u","n","-","r","e","s","u","l","t","s"," ","v","e","r","s","i","o","n",":"," ">>
    [] cat = "sources" -> <<"U","n","s","u","p","p","o","r","t","e","d"," ","s","o","u","r","c","e","s"," ","v","e","r","s","i","o","n",":"," ">>
  ) \o Numeral(k)

\* "Invalid dbt schema version format: <identifier>"
InvalidFormatText(s) == <<"I","n","v","a","l","i","d"," ","d","b","t"," ","s","c","h","e","m","a"," ","v","e","r","s","i","o","n"," ","f","o","r","m","a","t",":"," ">> \o s

TagOf(k) == "V" \o ToString(k)

\* x passes the structural guard: an object with an object-valued metadata
\* that holds a string-valued dbt_schema_version
StructurallyValid(x) ==
  /\ x.kind = "object" /\ x.hasMetadata
  /\ x.metadata.kind = "object" /\ x.metadata.hasVersion
  /\ x.metadata.dbt_schema_version.kind = "string"

Identifier(x) == x.metadata.dbt_schema_version.str

\* s ends in /<segment>/v<k>.json, k written with or without leading zeros
Denotes(s, cat, k) ==
  \E zeros \in 0..MaxLeadingZeros :
    LET suffix == WirePath(cat) \o Zeros(zeros) \o Numeral(k) \o <<".", "j", "s", "o", "n">>
    IN Len(s) >= Len(suffix) /\ SubSeq(s, Len(s) - Len(suffix) + 1, Len(s)) = suffix

\* s ends in /<segment>/v<digits>.json for some non-empty run of digits
MatchesPattern(s, cat) ==
  \E n \in 1..Len(s) :
    LET head == Len(s) - n - 5 - Len(WirePath(cat))
    IN /\ head >= 0
       /\ SubSeq(s, head + 1, head + Len(WirePath(cat))) = WirePath(cat)
       /\ \A i \in 1..n : s[head + Len(WirePath(cat)) + i] \in DigitChars
       /\ SubSeq(s, Len(s) - 4, Len(s)) = <<".", "j", "s", "o", "n">>

Failed(text) ==
  /\ pc = "Rejected"
  /\ result.status = "thrown"
  /\ result.errorClass = "Error"
  /\ result.message = text

Succeeded(tag) ==
  /\ pc = "Dispatched"
  /\ result.status = "returned"
  /\ result.tag = tag
  /\ result.value = arg

AutoDetect == parser.pinned = 0

Pinned == parser.pinned # 0

(***************************************************************************)
(* C1: for every input that passes the structural guard and whose          *)
(* identifier ends in /<segment>/v<k>.json, the auto-detect parser of the  *)
(* category succeeds if and only if 1 <= k <= N, and then with tag Vk.     *)
(***************************************************************************)
C1_DenseDispatch ==
  (pc \in Terminal /\ AutoDetect /\ StructurallyValid(arg)) =>
    \A k \in IdentifierVersions :
      Denotes(Identifier(arg), parser.cat, k) =>
        /\ (pc = "Dispatched") <=> (1 <= k /\ k <= HighestVersion(parser.cat))
        /\ (pc = "Dispatched") => Succeeded(TagOf(k))

C1_Witness ==
  /\ AutoDetect /\ parser.cat = "manifest" /\ StructurallyValid(arg)
  /\ Denotes(Identifier(arg), "manifest", 12)
  /\ Succeeded("V12")

(***************************************************************************)
(* C2: for k > N the auto-detect parser fails with exactly                 *)
(* "Unsupported {artifact} version: {k}" and returns no value.             *)
(***************************************************************************)
C2_UnsupportedAboveCeiling ==
  (pc \in Terminal /\ AutoDetect /\ StructurallyValid(arg)) =>
    \A k \in IdentifierVersions :
      (Denotes(Identifier(arg), parser.cat, k) /\ k > HighestVersion(parser.cat)) =>
        Failed(UnsupportedText(parser.cat, k))

C2_Witness ==
  /\ AutoDetect /\ parser.cat = "run_results" /\ StructurallyValid(arg)
  /\ Denotes(Identifier(arg), "run_results", FarVersion)
  /\ Failed(UnsupportedText("run_results", FarVersion))

(***************************************************************************)
(* C3: the auto-detect parser fails with "Not a {artifact}.json" exactly   *)
(* for the inputs that are absent, no object, without metadata, or whose   *)
(* metadata is absent, no object or without a string dbt_schema_version.   *)
(***************************************************************************)
C3_GuardExact ==
  (pc \in Terminal /\ AutoDetect) =>
    (Failed(NotArtifactText(parser.cat)) <=> ~StructurallyValid(arg))

C3_Witness ==
  /\ AutoDetect /\ parser.cat = "sources"
  /\ arg.kind = "object" /\ arg.hasMetadata /\ arg.metadata.kind = "object"
  /\ ~arg.metadata.hasVersion
  /\ Failed(NotArtifactText("sources"))

(***************************************************************************)
(* The stage-by-stage call and the composition Run agree on every outcome. *)
(***************************************************************************)
RunAgrees == pc \in Terminal => result = Run(parser, arg)

(***************************************************************************)
(* C4: in every parser call the stages run in the order Structural Guard,  *)
(* Version Extractor, then dispatch or expected-version comparison; the    *)
(* error reported is that of the earliest failing stage, and a successful  *)
(* call passes StructurallyValid and VersionExtracted before Dispatched.   *)
(***************************************************************************)
StageOrders ==
  { <<"Start", "Rejected">>,
    <<"Start", "StructurallyValid", "Rejected">>,
    <<"Start", "StructurallyValid", "VersionExtracted", "Rejected">>,
    <<"Start", "StructurallyValid", "VersionExtracted", "Dispatched">> }

C4_StageOrder ==
  pc \in Terminal =>
    /\ trace \in StageOrders
    /\ ~StructurallyValid(arg) =>
         (trace = <<"Start", "Rejected">> /\ Failed(NotArtifactText(parser.cat)))
    /\ (StructurallyValid(arg) /\ pc = "Rejected") => Len(trace) > 2

\* the same statement, of the parsers that do run the guard
C4_GuardedStageOrder == HasGuard(parser) => C4_StageOrder

(***************************************************************************)
(* C5: a pinned parser parse<Category>V<k> given a structurally valid      *)
(* input whose identifier carries a version j # k fails with exactly       *)
(* "Not a {artifact}.json v{k}", whether or not j is a supported version.  *)
(***************************************************************************)
C5_PinnedMismatch ==
  (pc \in Terminal /\ Pinned /\ StructurallyValid(arg)) =>
    \A j \in IdentifierVersions :
      (Denotes(Identifier(arg), parser.cat, j) /\ j # parser.pinned) =>
        Failed(MismatchText(parser.cat, parser.pinned))

C5_Witness ==
  /\ parser.cat = "catalog" /\ parser.pinned = 1 /\ StructurallyValid(arg)
  /\ Denotes(Identifier(arg), "catalog", 2)
  /\ Failed(MismatchText("catalog", 1))

(***************************************************************************)
(* C6: version agreement.  parse<Category>V<k>(r) succeeds if and only if  *)
(* parse<Category>(r) succeeds with tag Vk, both then return r itself, and *)
(* every parse<Category>V<j> with j # k fails with the mismatch error.     *)
(***************************************************************************)
C6_VersionAgreement ==
  pc \in Terminal =>
    LET auto == Run([parser EXCEPT !.pinned = 0], arg)
    IN /\ Pinned =>
            ((pc = "Dispatched") <=>
               (auto.status = "returned" /\ auto.tag = TagOf(parser.pinned)))
       /\ (Pinned /\ pc = "Dispatched") =>
            (Succeeded(TagOf(parser.pinned)) /\ auto.value = result.value)
       /\ (AutoDetect /\ pc = "Dispatched") =>
            \A j \in 1..HighestVersion(parser.cat) :
              LET other == Run([parser EXCEPT !.pinned = j], arg)
              IN IF TagOf(j) = result.tag
                 THEN other = result
                 ELSE /\ other.status = "thrown"
                      /\ other.errorClass = "Error"
                      /\ other.message = MismatchText(parser.cat, j)

C6_Witness ==
  /\ parser.cat = "run_results" /\ parser.pinned = 6
  /\ Succeeded("V6")
  /\ Run([parser EXCEPT !.pinned = 0], arg) = result

(***************************************************************************)
(* C7, as claimed: a pinned parser fails with the mismatch error only for  *)
(* a detected version j in [1..N] other than k, and with the unsupported-  *)
(* version error when the detected version lies outside [1..N].            *)
(***************************************************************************)
C7_PinnedDistinguishesUnsupported ==
  (pc \in Terminal /\ Pinned /\ StructurallyValid(arg)) =>
    \A j \in IdentifierVersions :
      Denotes(Identifier(arg), parser.cat, j) =>
        /\ Failed(MismatchText(parser.cat, parser.pinned)) =>
             (1 <= j /\ j <= HighestVersion(parser.cat) /\ j # parser.pinned)
        /\ (j < 1 \/ j > HighestVersion(parser.cat)) =>
             Failed(UnsupportedText(parser.cat, j))

StartsWith(s, t) == Len(s) >= Len(t) /\ SubSeq(s, 1, Len(t)) = t

(***************************************************************************)
(* C7, amended: a pinned parser fails with the mismatch error "Not a       *)
(* {artifact}.json v{k}" also when the detected version lies outside       *)
(* [1..N], and no pinned parser ever raises the unsupported-version error. *)
(***************************************************************************)
C7_PinnedNeverUnsupported ==
  (pc \in Terminal /\ Pinned) =>
    /\ ~StartsWith(result.message, <<"U", "n", "s", "u", "p", "p", "o", "r", "t", "e", "d">>)
    /\ StructurallyValid(arg) =>
         \A j \in IdentifierVersions :
           (Denotes(Identifier(arg), parser.cat, j)
              /\ (j < 1 \/ j > HighestVersion(parser.cat))) =>
             Failed(MismatchText(parser.cat, parser.pinned))

C7_Witness ==
  /\ parser.cat = "manifest" /\ parser.pinned = 12 /\ StructurallyValid(arg)
  /\ Denotes(Identifier(arg), "manifest", 13)
  /\ Failed(MismatchText("manifest", 12))

(***************************************************************************)
(* C8, as claimed: every error any parser raises carries one of the three  *)
(* templates "Not a {artifact}.json", "Not a {artifact}.json v{N}" and     *)
(* "Unsupported {artifact} version: {N}"; nothing else is reachable.       *)
(***************************************************************************)
ThreeTemplates(message, cat) ==
  \/ message = NotArtifactText(cat)
  \/ \E k \in 1..HighestVersion(cat) : message = MismatchText(cat, k)
  \/ \E n \in IdentifierVersions : message = UnsupportedText(cat, n)

C8_ThreeTemplates ==
  pc = "Rejected" =>
    (result.errorClass = "Error" /\ ThreeTemplates(result.message, parser.cat))

(***************************************************************************)
(* C8, amended: every error a parser raises is an Error carrying one of    *)
(* four templates, the three above and "Invalid dbt schema version format: *)
(* {identifier}", or else the TypeError that a pinned parser of the inline *)
(* generation raises on an input that fails the structural guard.          *)
(***************************************************************************)
C8_FourTemplates ==
  pc = "Rejected" =>
    \/ /\ result.errorClass = "Error"
       /\ \/ ThreeTemplates(result.message, parser.cat)
          \/ /\ StructurallyValid(arg)
             /\ result.message = InvalidFormatText(Identifier(arg))
    \/ /\ result.errorClass = "TypeError"
       /\ parser.gen = "inline" /\ Pinned
       /\ ~StructurallyValid(arg)

C8_Witness ==
  /\ pc = "Rejected" /\ AutoDetect /\ StructurallyValid(arg)
  /\ result.errorClass = "Error"
  /\ result.message = InvalidFormatText(Identifier(arg))
  /\ ~ThreeTemplates(result.message, parser.cat)

(***************************************************************************)
(* C9: every parser, given an input that passes the structural guard but   *)
(* whose identifier does not end in /<segment>/v<digits>.json, fails with  *)
(* "Invalid dbt schema version format: <identifier>", an error distinct    *)
(* from the other three, also in a pinned parser.                          *)
(***************************************************************************)
C9_MalformedIdentifier ==
  (pc \in Terminal /\ StructurallyValid(arg)
     /\ ~MatchesPattern(Identifier(arg), parser.cat)) =>
    /\ Failed(InvalidFormatText(Identifier(arg)))
    /\ ~ThreeTemplates(result.message, parser.cat)

C9_Witness ==
  /\ Pinned /\ parser.gen = "inline" /\ StructurallyValid(arg)
  /\ Identifier(arg) = <<>>
  /\ Failed(InvalidFormatText(<<>>))

(***************************************************************************)
(* C10: every pinned parser applies the structural guard first: given      *)
(* null, undefined, a non-object, {}, {metadata: {}} or a non-string       *)
(* dbt_schema_version it fails with "Not a {artifact}.json" and with no    *)
(* other exception.                                                        *)
(***************************************************************************)
C10_PinnedGuard ==
  (pc \in Terminal /\ Pinned /\ ~StructurallyValid(arg)) =>
    Failed(NotArtifactText(parser.cat))

\* the same statement, of the pinned parsers of the helper generation
C10_HelperPinnedGuard == parser.gen = "helper" => C10_PinnedGuard

(***************************************************************************)
(* C11: round-trip identity.  Whenever a parser succeeds, the value it     *)
(* returns is the very object it was given, not a copy, and its content is *)
(* the content the argument had before the call.                           *)
(***************************************************************************)
C11_RoundTrip ==
  pc = "Dispatched" =>
    /\ result.status = "returned"
    /\ result.ref = "argument"
    /\ result.value = before
    /\ arg = before

C11_Witness ==
  /\ pc = "Dispatched" /\ parser.cat = "sources" /\ parser.pinned = 3
  /\ before.others /\ before.metadata.others
  /\ result.ref = "argument" /\ result.value = before

(***************************************************************************)
(* C12: idempotence and history independence.  A call of a parser on an    *)
(* input has the outcome that an earlier call of the same parser on the    *)
(* same input had, whatever calls came before either of them.              *)
(***************************************************************************)
C12_SameOutcomeAgain ==
  (pc \in Terminal /\ remembered.kept
     /\ remembered.parser = parser /\ remembered.arg = arg) =>
    result = remembered.result

C12_Witness ==
  /\ pc = "Dispatched" /\ remembered.kept
  /\ remembered.parser = parser /\ remembered.arg = arg
  /\ remembered.result.status = "returned"
  /\ result = remembered.result

(***************************************************************************)
(* The kind of a failure, by its cause.                                    *)
(***************************************************************************)
FailureKind(p, x) ==
  IF ~StructurallyValid(x) THEN "StructurallyInvalid"
  ELSE IF ~MatchesPattern(Identifier(x), p.cat) THEN "MalformedVersionIdentifier"
  ELSE IF p.pinned # 0 THEN "VersionMismatch"
  ELSE "UnsupportedVersion"

\* what a caller can inspect of an outcome besides the message text
BesidesMessage(r) == [r EXCEPT !.message = <<>>]

\* the call in progress has failed, and so had the call the caller remembers
TwoFailures == pc = "Rejected" /\ remembered.kept /\ remembered.result.status = "thrown"

TwoErrors ==
  TwoFailures /\ result.errorClass = "Error" /\ remembered.result.errorClass = "Error"

(***************************************************************************)
(* C13, as claimed: errors of different kinds differ in something a caller *)
(* can inspect besides the message text, a structured discriminant.        *)
(***************************************************************************)
C13_KindByDiscriminant ==
  (TwoErrors /\ FailureKind(parser, arg) # FailureKind(remembered.parser, remembered.arg)) =>
    BesidesMessage(result) # BesidesMessage(remembered.result)

(***************************************************************************)
(* C13, amended: the errors of the parsers are plain Error values that     *)
(* carry nothing but their message; two of them differ in the message text *)
(* only, and failures of different kinds always differ in the message      *)
(* text.  The one failure of another class is the TypeError of a pinned    *)
(* parser of the inline generation on a structurally invalid input.        *)
(***************************************************************************)
C13_KindByMessageOnly ==
  TwoFailures =>
    /\ TwoErrors => BesidesMessage(result) = BesidesMessage(remembered.result)
    /\ result.errorClass # "Error" =>
         /\ result.errorClass = "TypeError"
         /\ parser.gen = "inline" /\ Pinned /\ ~StructurallyValid(arg)
         /\ [BesidesMessage(result) EXCEPT !.errorClass = "Error"]
              = [BesidesMessage(remembered.result) EXCEPT !.errorClass = "Error"]
    /\ FailureKind(parser, arg) # FailureKind(remembered.parser, remembered.arg) =>
         result.message # remembered.result.message

C13_Witness ==
  /\ TwoErrors
  /\ FailureKind(parser, arg) = "VersionMismatch"
  /\ FailureKind(remembered.parser, remembered.arg) = "StructurallyInvalid"
  /\ parser.cat = remembered.parser.cat
  /\ BesidesMessage(result) = BesidesMessage(remembered.result)
  /\ result.message # remembered.result.message

(***************************************************************************)
(* The outcome a call has when it runs alone, read off the input: the tag  *)
(* or the message, and the class of the error.  The message of a TypeError *)
(* is the engine's and is left out.                                        *)
(***************************************************************************)
DenotedVersion(s, cat) == CHOOSE k \in IdentifierVersions : Denotes(s, cat, k)

Outline(r) ==
  [status |-> r.status, tag |-> r.tag, errorClass |-> r.errorClass,
   message |-> IF r.errorClass = "TypeError" THEN <<>> ELSE r.message]

Fails(text) == [status |-> "thrown", tag |-> "", errorClass |-> "Error", message |-> text]

Alone(p, x) ==
  IF ~StructurallyValid(x)
  THEN IF p.gen = "inline" /\ p.pinned # 0
       THEN [status |-> "thrown", tag |-> "", errorClass |-> "TypeError", message |-> <<>>]
       ELSE Fails(NotArtifactText(p.cat))
  ELSE IF ~MatchesPattern(Identifier(x), p.cat)
  THEN Fails(InvalidFormatText(Identifier(x)))
  ELSE LET k == DenotedVersion(Identifier(x), p.cat)
       IN IF p.pinned # 0 /\ k # p.pinned THEN Fails(MismatchText(p.cat, p.pinned))
          ELSE IF k < 1 \/ k > HighestVersion(p.cat) THEN Fails(UnsupportedText(p.cat, k))
          ELSE [status |-> "returned", tag |-> TagOf(k), errorClass |-> "", message |-> <<>>]

(***************************************************************************)
(* C14: concurrent calls need no coordination.  With two calls in progress *)
(* at once, their steps interleaved in every order, each call ends with    *)
(* the outcome it has when it runs alone, and returns its own argument.    *)
(***************************************************************************)
C14_NoInterference ==
  /\ pc \in Terminal =>
       /\ Outline(result) = Alone(parser, arg)
       /\ pc = "Dispatched" => result.value = arg
  /\ second.pc \in Terminal =>
       /\ Outline(second.result) = Alone(second.parser, second.arg)
       /\ second.pc = "Dispatched" => second.result.value = second.arg

C14_Witness ==
  /\ pc = "VersionExtracted" /\ parser.cat = "manifest" /\ version = 1
  /\ second.pc = "Dispatched" /\ second.parser.cat = "run_results"
  /\ second.parser.pinned = 0 /\ second.result.tag = "V6"

(***************************************************************************)
(* C15: the run_results category uses the hyphenated literal run-results,  *)
(* in the identifier it accepts and in its messages; an identifier ending  *)
(* in /run_results/v<digits>.json is rejected.  Every category accepts     *)
(* only identifiers of its own segment.                                    *)
(***************************************************************************)
UnderscorePath == <<"/","r","u","n","_","r","e","s","u","l","t","s","/","v">>

\* s ends in /run_results/v<digits>.json, written with an underscore
UnderscoreForm(s) ==
  \E k \in IdentifierVersions, zeros \in 0..MaxLeadingZeros :
    LET suffix == UnderscorePath \o Zeros(zeros) \o Numeral(k) \o <<".", "j", "s", "o", "n">>
    IN Len(s) >= Len(suffix) /\ SubSeq(s, Len(s) - Len(suffix) + 1, Len(s)) = suffix

C15_HyphenatedSegment ==
  pc \in Terminal =>
    /\ pc = "Dispatched" =>
         (StructurallyValid(arg) /\ MatchesPattern(Identifier(arg), parser.cat))
    /\ (parser.cat = "run_results" /\ StructurallyValid(arg)) =>
         /\ UnderscoreForm(Identifier(arg)) => Failed(InvalidFormatText(Identifier(arg)))
         /\ MatchesPattern(Identifier(arg), "run_results") =>
              ~Failed(InvalidFormatText(Identifier(arg)))
    /\ (parser.cat = "run_results" /\ pc = "Rejected" /\ result.errorClass = "Error") =>
         \/ result.message = NotArtifactText("run_results")
         \/ \E k \in 1..6 : result.message = MismatchText("run_results", k)
         \/ \E n \in IdentifierVersions : result.message = UnsupportedText("run_results", n)
         \/ StructurallyValid(arg) /\ result.message = InvalidFormatText(Identifier(arg))

C15_Witness ==
  /\ parser.cat = "run_results" /\ StructurallyValid(arg)
  /\ UnderscoreForm(Identifier(arg))
  /\ Failed(InvalidFormatText(Identifier(arg)))

(***************************************************************************)
(* C16, as claimed: an identifier that carries a version k <= 0, v0 or a   *)
(* negative number such as v-1, makes the auto-detect parser fail with     *)
(* "Unsupported {artifact} version: {k}".                                  *)
(***************************************************************************)
SignedNumeral(k) == IF k < 0 THEN <<"-">> \o Numeral(0 - k) ELSE Numeral(k)

\* s ends in /<segment>/v<k>.json, k written with its sign
Carries(s, cat, k) ==
  LET suffix == WirePath(cat) \o SignedNumeral(k) \o <<".", "j", "s", "o", "n">>
  IN Len(s) >= Len(suffix) /\ SubSeq(s, Len(s) - Len(suffix) + 1, Len(s)) = suffix

UnsupportedSignedText(cat, k) ==
  IF k < 0
  THEN SubSeq(UnsupportedText(cat, 0), 1, Len(UnsupportedText(cat, 0)) - 1) \o SignedNumeral(k)
  ELSE UnsupportedText(cat, k)

NonPositive == {0, 0 - 1}

C16_NonPositiveUnsupported ==
  (pc \in Terminal /\ AutoDetect /\ StructurallyValid(arg)) =>
    \A k \in NonPositive :
      Carries(Identifier(arg), parser.cat, k) =>
        Failed(UnsupportedSignedText(parser.cat, k))

(***************************************************************************)
(* C16, amended: v0 (also written v00) makes the auto-detect parser fail   *)
(* with "Unsupported {artifact} version: 0"; an identifier with a sign,    *)
(* such as v-1, does not match the pattern and fails with "Invalid dbt     *)
(* schema version format: {identifier}"; no negative version is detected.  *)
(***************************************************************************)
C16_ZeroUnsupportedSignMalformed ==
  /\ version >= 0 \/ version = NoVersion
  /\ pc = "VersionExtracted" => version >= 0
  /\ (pc \in Terminal /\ AutoDetect /\ StructurallyValid(arg)) =>
       /\ Denotes(Identifier(arg), parser.cat, 0) => Failed(UnsupportedText(parser.cat, 0))
       /\ Carries(Identifier(arg), parser.cat, 0 - 1) =>
            Failed(InvalidFormatText(Identifier(arg)))

C16_Witness ==
  /\ AutoDetect /\ parser.cat = "catalog" /\ StructurallyValid(arg)
  /\ Carries(Identifier(arg), "catalog", 0 - 1)
  /\ Failed(InvalidFormatText(Identifier(arg)))

(***************************************************************************)
(* C17: no parser changes its argument or anything outside the call.       *)
(* When a call has returned or thrown, the argument, its metadata          *)
(* included, is what it was when the call began; and no step of a call     *)
(* changes the argument, the outcome the caller remembers or another call. *)
(***************************************************************************)
C17_NoMutation ==
  /\ [](pc \in Terminal => arg = before)
  /\ [][(pc # "Idle" /\ pc' # "Idle") =>
          (arg' = arg /\ parser' = parser /\ remembered' = remembered /\ second' = second)]_vars

C17_Witness ==
  /\ pc = "Rejected" /\ parser.pinned = 0 /\ StructurallyValid(arg)
  /\ result.errorClass = "Error"
  /\ ~arg.others /\ ~arg.metadata.others
  /\ arg = before

(***************************************************************************)
(* C18: an artifact is never coerced to the wrong type.  Whenever a parser *)
(* returns with tag Vk, the identifier of the input is a string ending in  *)
(* /<segment of the category>/v<digits>.json whose digits denote k, with   *)
(* 1 <= k <= N, and for a pinned parser k is its own version.              *)
(***************************************************************************)
C18_NeverWrongType ==
  pc = "Dispatched" =>
    /\ StructurallyValid(arg)
    /\ \E k \in 1..HighestVersion(parser.cat) :
         /\ result.tag = TagOf(k)
         /\ Denotes(Identifier(arg), parser.cat, k)
         /\ Pinned => k = parser.pinned
    /\ \A j \in IdentifierVersions :
         Denotes(Identifier(arg), parser.cat, j) => result.tag = TagOf(j)

C18_Witness ==
  /\ pc = "Dispatched" /\ parser.cat = "manifest" /\ parser.gen = "inline" /\ parser.pinned = 11
  /\ StructurallyValid(arg) /\ Denotes(Identifier(arg), "manifest", 11)
  /\ result.tag = "V11"

(***************************************************************************)
(* C19: every call ends.  A call that has begun reaches Dispatched or      *)
(* Rejected, after at most three steps whatever the argument holds; a call *)
(* that has failed is over, no stage is entered again.                     *)
(***************************************************************************)
C19_Terminates ==
  /\ (pc = "Start") ~> (pc \in Terminal)
  /\ [](Len(trace) <= 4)
  /\ [][(pc \in Terminal) => (pc' = "Idle")]_vars
  /\ [][(pc' = "Start" => pc = "Idle") /\ (pc \notin {"Idle"} \cup Terminal => pc' # pc)]_vars

C19_Witness ==
  /\ pc = "Rejected" /\ Len(trace) = 4
  /\ arg.others /\ arg.metadata.others
  /\ result.errorClass = "Error"

(***************************************************************************)
(* C20: only the identifier decides.  Two objects whose metadata is an     *)
(* object carrying the same dbt_schema_version have the same outcome in    *)
(* every parser, whatever else they or their metadata hold; an object      *)
(* holding nothing but a supported identifier is parsed successfully.      *)
(***************************************************************************)
\* x with and without further top-level and metadata properties
Variants(x) == { [x EXCEPT !.others = a, !.metadata.others = b] : a, b \in BOOLEAN }

OutcomeKind(r) ==
  [status |-> r.status, tag |-> r.tag, errorClass |-> r.errorClass, message |-> r.message]

C20_OnlyIdentifierDecides ==
  (pc \in Terminal /\ arg.kind = "object" /\ arg.hasMetadata /\ arg.metadata.kind = "object") =>
    /\ \A y \in Variants(arg) : OutcomeKind(Run(parser, y)) = OutcomeKind(result)
    /\ \A k \in 1..HighestVersion(parser.cat) :
         (StructurallyValid(arg) /\ Denotes(Identifier(arg), parser.cat, k)
            /\ ~arg.others /\ ~arg.metadata.others /\ parser.pinned \in {0, k}) =>
           Succeeded(TagOf(k))

C20_Witness ==
  /\ parser.cat = "sources" /\ AutoDetect /\ StructurallyValid(arg)
  /\ ~arg.others /\ ~arg.metadata.others
  /\ Denotes(Identifier(arg), "sources", 3)
  /\ Succeeded("V3")

(***************************************************************************)
(* C21: the pattern is anchored at the end of the identifier only.  A      *)
(* string ending in /<segment>/v<digits>.json is accepted by the extractor *)
(* whatever precedes the suffix, nothing included; a string with a         *)
(* character after ".json", or without the "/" before the segment, is      *)
(* rejected as malformed.                                                  *)
(***************************************************************************)
\* s is a string of the pattern followed by one more character
TrailingCharacter(s, cat) ==
  /\ Len(s) > 1
  /\ s[Len(s)] # "n"
  /\ MatchesPattern(SubSeq(s, 1, Len(s) - 1), cat)

\* s ends in <segment>/v<digits>.json, with no "/" right before the segment
LacksSlash(s, cat) ==
  \E n \in 1..Len(s) :
    LET path == Tail(WirePath(cat))
        head == Len(s) - n - 5 - Len(path)
    IN /\ head >= 0
       /\ SubSeq(s, head + 1, head + Len(path)) = path
       /\ head > 0 => s[head] # "/"
       /\ \A i \in 1..n : s[head + Len(path) + i] \in DigitChars
       /\ SubSeq(s, Len(s) - 4, Len(s)) = <<".", "j", "s", "o", "n">>

\* the extractor has accepted the identifier: the call went on to the
\* version checks
Accepted == pc = "Dispatched" \/ (pc = "Rejected" /\ trace[Len(trace) - 1] = "VersionExtracted")

C21_AnchoredAtEndOnly ==
  (pc \in Terminal /\ StructurallyValid(arg)) =>
    /\ MatchesPattern(Identifier(arg), parser.cat) =>
         (Accepted /\ ~Failed(InvalidFormatText(Identifier(arg))))
    /\ TrailingCharacter(Identifier(arg), parser.cat) =>
         (~Accepted /\ Failed(InvalidFormatText(Identifier(arg))))
    /\ LacksSlash(Identifier(arg), parser.cat) =>
         (~Accepted /\ Failed(InvalidFormatText(Identifier(arg))))

C21_Witness ==
  /\ pc = "Dispatched" /\ StructurallyValid(arg) /\ parser.cat = "sources"
  /\ \E k \in 1..3 :
       Identifier(arg) = <<"f","i","l","e",":">> \o WirePath("sources") \o Numeral(k)
                           \o <<".", "j", "s", "o", "n">>

(***************************************************************************)
(* C22: leading zeros in the version digits parse as the equivalent        *)
(* integer.  An identifier ending in /<segment>/v0...0<k>.json, k          *)
(* supported, is tagged Vk by the auto-detect parser and accepted by the   *)
(* pinned parser of k; the pinned parsers of the other versions reject it  *)
(* with the mismatch error.                                                *)
(***************************************************************************)
LeadingZeroForm(s, cat, k) ==
  \E zeros \in 1..MaxLeadingZeros :
    LET suffix == WirePath(cat) \o Zeros(zeros) \o Numeral(k) \o <<".", "j", "s", "o", "n">>
    IN Len(s) >= Len(suffix) /\ SubSeq(s, Len(s) - Len(suffix) + 1, Len(s)) = suffix

C22_LeadingZeros ==
  (pc \in Terminal /\ StructurallyValid(arg)) =>
    \A k \in 1..HighestVersion(parser.cat) :
      LeadingZeroForm(Identifier(arg), parser.cat, k) =>
        IF parser.pinned \in {0, k}
        THEN Succeeded(TagOf(k))
        ELSE Failed(MismatchText(parser.cat, parser.pinned))

C22_Witness ==
  /\ parser.cat = "manifest" /\ parser.pinned = 10 /\ StructurallyValid(arg)
  /\ LeadingZeroForm(Identifier(arg), "manifest", 10)
  /\ Succeeded("V10")


(***************************************************************************)
(* C23: the four category cores are one algorithm with three parameters:   *)
(* the artifact name, the wire path segment and the highest version.  A    *)
(* call of any parser of one category, and the call of the corresponding   *)
(* parser of another category on the same input with the segment           *)
(* substituted, have the same kind of outcome.                             *)
(***************************************************************************)
\* the number of digits in an identifier that ends in /<segment>/v<digits>.json
PatternDigits(s, cat) ==
  CHOOSE n \in 1..Len(s) :
    LET head == Len(s) - n - 5 - Len(WirePath(cat))
    IN /\ head >= 0
       /\ SubSeq(s, head + 1, head + Len(WirePath(cat))) = WirePath(cat)
       /\ \A i \in 1..n : s[head + Len(WirePath(cat)) + i] \in DigitChars

\* the identifier with the segment of category a replaced by that of b
Substituted(s, a, b) ==
  IF MatchesPattern(s, a)
  THEN LET n == PatternDigits(s, a)
           head == Len(s) - n - 5 - Len(WirePath(a))
       IN SubSeq(s, 1, head) \o WirePath(b) \o SubSeq(s, Len(s) - n - 4, Len(s))
  ELSE s

SubstitutedInput(x, a, b) ==
  IF StructurallyValid(x)
  THEN [x EXCEPT !.metadata.dbt_schema_version.str = Substituted(Identifier(x), a, b)]
  ELSE x

\* the kind of an outcome, with the category's name and segment taken out
AbstractKind(r, cat, x) ==
  LET kind(name, tag, number) == [kind |-> name, tag |-> tag, number |-> number]
  IN IF r.status = "returned" THEN kind("Returned", r.tag, IF r.value = x THEN 1 ELSE 0)
     ELSE IF r.errorClass = "TypeError" THEN kind("TypeError", "", 0)
     ELSE IF r.message = NotArtifactText(cat) THEN kind("StructurallyInvalid", "", 0)
     ELSE IF \E k \in 1..HighestVersion(cat) : r.message = MismatchText(cat, k)
     THEN kind("VersionMismatch", "", CHOOSE k \in 1..HighestVersion(cat) : r.message = MismatchText(cat, k))
     ELSE IF \E k \in IdentifierVersions : r.message = UnsupportedText(cat, k)
     THEN kind("UnsupportedVersion", "", CHOOSE k \in IdentifierVersions : r.message = UnsupportedText(cat, k))
     ELSE IF StructurallyValid(x) /\ r.message = InvalidFormatText(Identifier(x))
     THEN kind("MalformedVersionIdentifier", "", 0)
     ELSE kind("Other", "", 0)

\* the parser of category b that corresponds to p exists, and the input is
\* abstractly the same for both: malformed for both, or of the own segment
\* with a version that is within both ranges or beyond both
Corresponds(p, x, b) ==
  /\ b # p.cat
  /\ p.gen \in Generations(b)
  /\ p.pinned <= HighestVersion(b)
  /\ StructurallyValid(x) =>
       IF MatchesPattern(Identifier(x), p.cat)
       THEN LET k == DenotedVersion(Identifier(x), p.cat)
            IN (k >= 1 /\ k <= HighestVersion(p.cat)) <=> (k >= 1 /\ k <= HighestVersion(b))
       ELSE ~MatchesPattern(Identifier(x), b)

\* C23: the corresponding parsers of two categories produce the same kind of
\* outcome on corresponding inputs
C23_OneAlgorithm ==
  pc \in Terminal =>
    \A b \in Categories :
      Corresponds(parser, arg, b) =>
        LET y == SubstitutedInput(arg, parser.cat, b)
        IN AbstractKind(Run([parser EXCEPT !.cat = b], y), b, y)
             = AbstractKind(result, parser.cat, arg)

\* a pinned catalog call has returned its own artifact, and the sources
\* parser returns the substituted one
C23_Witness ==
  /\ pc = "Dispatched"
  /\ parser.cat = "catalog" /\ parser.pinned = 1 /\ parser.gen = "helper"
  /\ Corresponds(parser, arg, "sources")
  /\ Denotes(Identifier(SubstitutedInput(arg, "catalog", "sources")), "sources", 1)
  /\ Run([parser EXCEPT !.cat = "sources"], SubstitutedInput(arg, "catalog", "sources")).status = "returned"


(***************************************************************************)
(* C24: an artifact of one category is rejected by every parser of every   *)
(* other category.  A structurally valid input whose identifier ends in    *)
(* /<segment of b>/v<k>.json makes the auto-detect parser and every pinned *)
(* parser of a category other than b fail with the invalid-format error,   *)
(* also when k is a version the called category supports.                  *)
(***************************************************************************)
\* the input is an artifact of a category other than the called one
OfAnotherCategory(p, x) ==
  /\ StructurallyValid(x)
  /\ \E b \in Categories \ {p.cat} : MatchesPattern(Identifier(x), b)

\* C24: every parser of a category fails with "Invalid dbt schema version
\* format: <identifier>" on the artifact of another category, and returns
\* nothing
C24_CrossCategoryRejection ==
  /\ (pc \in Terminal /\ OfAnotherCategory(parser, arg)) =>
       Failed(InvalidFormatText(Identifier(arg)))
  /\ (pc \in Terminal /\ OfAnotherCategory(parser, arg)) =>
       \A p \in Parsers :
         (p.cat = parser.cat) =>
           Run(p, arg) = Thrown(InvalidFormatText(Identifier(arg)))

\* the manifest V1 parser has rejected a catalog v1 artifact, whose version
\* the manifest parsers support
C24_Witness ==
  /\ pc = "Rejected"
  /\ parser.cat = "manifest" /\ parser.pinned = 1
  /\ StructurallyValid(arg)
  /\ Denotes(Identifier(arg), "catalog", 1)
  /\ result.message = InvalidFormatText(Identifier(arg))


(***************************************************************************)
(* C25: an input has at most one typed interpretation.  Of the pinned      *)
(* parsers parse<Category>V1..V<N> of a category at most one returns on a  *)
(* given input, and of the auto-detect parsers of the four categories at   *)
(* most one returns on it.                                                 *)
(***************************************************************************)
\* the pinned versions of the called category and generation that return on x
PinnedThatSucceed(p, x) ==
  { j \in 1..HighestVersion(p.cat) : Run([p EXCEPT !.pinned = j], x).status = "returned" }

\* the categories whose auto-detect parser, of whichever generation, returns on x
CategoriesThatSucceed(x) ==
  { c \in Categories :
      \E g \in Generations(c) : Run([cat |-> c, gen |-> g, pinned |-> 0], x).status = "returned" }

\* C25: at most one pinned parser of the category returns on the input of a
\* finished call, it is the called one when the call returned, and at most
\* one category's auto-detect parser returns on it
C25_AtMostOneInterpretation ==
  pc \in Terminal =>
    /\ Cardinality(PinnedThatSucceed(parser, arg)) <= 1
    /\ Cardinality(CategoriesThatSucceed(arg)) <= 1
    /\ (pc = "Dispatched" /\ Pinned) => PinnedThatSucceed(parser, arg) = {parser.pinned}
    /\ (pc = "Dispatched" /\ AutoDetect) => CategoriesThatSucceed(arg) = {parser.cat}

\* parseManifestV2 has returned a v2 manifest, which the other eleven pinned
\* manifest parsers and the other three categories reject
C25_Witness ==
  /\ pc = "Dispatched"
  /\ parser.cat = "manifest" /\ parser.pinned = 2
  /\ PinnedThatSucceed(parser, arg) = {2}
  /\ CategoriesThatSucceed(arg) = {"manifest"}


(***************************************************************************)
(* C26: the kind of a failure can be read off its message.  Within a       *)
(* category the four kinds of failure have messages from four disjoint     *)
(* families, although "Not a {artifact}.json" is a prefix of every         *)
(* "Not a {artifact}.json v{k}".                                           *)
(***************************************************************************)
FailureKinds ==
  {"StructurallyInvalid", "VersionMismatch", "UnsupportedVersion", "MalformedVersionIdentifier"}

\* the messages a category can raise for a kind of failure, by their fixed text
MessageFamily(kind, cat, m) ==
  CASE kind = "StructurallyInvalid" -> m = NotArtifactText(cat)
    [] kind = "VersionMismatch" -> StartsWith(m, NotArtifactText(cat) \o <<" ", "v">>)
    [] kind = "UnsupportedVersion" -> StartsWith(m, DropLast(UnsupportedText(cat, 0), 1))
    [] kind = "MalformedVersionIdentifier" -> StartsWith(m, InvalidFormatText(<<>>))

\* C26: the message of a failed call lies in the family of the kind of the
\* failure when it is an Error, and in the family of no other kind; the
\* message of a structurally invalid input is a proper prefix of the message
\* of every version mismatch
C26_KindFromMessage ==
  /\ pc = "Rejected" =>
       \A kind \in FailureKinds :
         MessageFamily(kind, parser.cat, result.message)
           <=> (kind = FailureKind(parser, arg) /\ result.errorClass = "Error")
  /\ \A k \in 1..HighestVersion(parser.cat) :
       /\ StartsWith(MismatchText(parser.cat, k), NotArtifactText(parser.cat))
       /\ MismatchText(parser.cat, k) # NotArtifactText(parser.cat)

\* parseRunResultsV3 has failed on a v4 run-results artifact with a message
\* that starts with the text of the structurally invalid input
C26_Witness ==
  /\ pc = "Rejected"
  /\ parser.cat = "run_results" /\ parser.pinned = 3
  /\ FailureKind(parser, arg) = "VersionMismatch"
  /\ StartsWith(result.message, NotArtifactText("run_results"))
  /\ result.message # NotArtifactText("run_results")


(***************************************************************************)
(* C27: the parsers that validate through validate<Category>AndGetVersion  *)
(* are total over the values JSON.parse can produce.  Whatever the input   *)
(* is (null, a boolean, a number, a string, an array or an object), the    *)
(* call returns the input itself or throws an Error with one of the four   *)
(* messages of the category; no TypeError or other exception escapes.      *)
(***************************************************************************)
JsonKinds == {"null", "boolean", "number", "string", "array", "object"}

\* the messages a parser of the category may raise on input x
AllowedMessages(p, x) ==
  {NotArtifactText(p.cat)}
    \cup (IF StructurallyValid(x) THEN {InvalidFormatText(Identifier(x))} ELSE {})
    \cup (IF p.pinned = 0
          THEN { UnsupportedText(p.cat, k) : k \in IdentifierVersions }
          ELSE {MismatchText(p.cat, p.pinned)})

\* C27: a finished call of a parser of the helper generation on a JSON value
\* has returned its argument or thrown an Error with an allowed message
C27_TotalOverJson ==
  (pc \in Terminal /\ parser.gen = "helper" /\ arg.kind \in JsonKinds) =>
    \/ /\ pc = "Dispatched"
       /\ result.status = "returned"
       /\ result.value = arg
    \/ /\ pc = "Rejected"
       /\ result.status = "thrown"
       /\ result.errorClass = "Error"
       /\ result.message \in AllowedMessages(parser, arg)

\* the auto-detect sources parser has rejected a non-zero number, on which
\* the `in` operator would have thrown, with "Not a sources.json"
C27_Witness ==
  /\ pc = "Rejected"
  /\ parser.cat = "sources" /\ parser.pinned = 0
  /\ arg.kind = "number" /\ Truthy(arg)
  /\ InThrows(arg)
  /\ result.errorClass = "Error"
  /\ result.message = NotArtifactText("sources")


(***************************************************************************)
(* C28: the two ways the repository writes a core, with the guard inline   *)
(* in parse<Category> and with the shared validate<Category>AndGetVersion, *)
(* cannot be told apart by a caller of the auto-detect parser on any       *)
(* input, nor by a caller of a pinned parser on an input that passes the   *)
(* structural guard: same returned object, or same error and message.      *)
(***************************************************************************)
OtherGeneration(p) == [p EXCEPT !.gen = IF p.gen = "helper" THEN "inline" ELSE "helper"]

\* C28: the finished call has the outcome the same parser of the other
\* generation has on the same input
C28_GenerationsEquivalent ==
  (/\ pc \in Terminal
   /\ OtherGeneration(parser) \in Parsers
   /\ AutoDetect \/ StructurallyValid(arg)) =>
    /\ Run(OtherGeneration(parser), arg) = result
    /\ result.status = "returned" => result.value = arg

\* the inline auto-detect parser has rejected a metadata whose
\* dbt_schema_version is present and not a string, which its third if
\* catches and the helper's second if catches
C28_Witness ==
  /\ pc = "Rejected"
  /\ parser.gen = "inline" /\ parser.pinned = 0
  /\ arg.kind = "object" /\ arg.hasMetadata
  /\ arg.metadata.kind = "object" /\ arg.metadata.hasVersion
  /\ arg.metadata.dbt_schema_version.kind = "number"
  /\ Run(OtherGeneration(parser), arg) = result


(***************************************************************************)
(* C29: preprocess-refs.js.  A schema with a root-level $ref is            *)
(* dereferenced and the result written to the output file; any other       *)
(* schema is copied to the output file as it is; the exit status is 0      *)
(* after either, and 1 when an argument is missing or a step fails.        *)
(***************************************************************************)
\* the schema is an object whose $ref is a reference: a non-empty string
RootLevelRef(schema) ==
  schema.kind = "object" /\ schema.ref.kind = "string" /\ schema.ref.str # <<>>

\* the schema is an object whose $ref is a JSON pointer into the document
LocalRootRef(schema) ==
  /\ RootLevelRef(schema)
  /\ Len(schema.ref.str) >= 2 /\ schema.ref.str[1] = "#" /\ schema.ref.str[2] = "/"

ArgumentMissing ==
  ~ArgumentTruthy(preprocess.argv.inputFile) \/ ~ArgumentTruthy(preprocess.argv.outputFile)

\* a step of the run cannot succeed in its environment, given which of the
\* two paths the schema takes
StepFails(dereferences) ==
  \/ ~preprocess.env.readable \/ ~preprocess.env.wellFormed
  \/ preprocess.env.schema.kind = "null"
  \/ ~preprocess.env.writable
  \/ dereferences /\ (~preprocess.env.resolvable \/ ~preprocess.env.serialisable)

\* the outcome of a finished run, by which schemas are to be dereferenced
PreprocessOutcome(dereferences) ==
  /\ preprocess.status \in {0, 1}
  /\ (ArgumentMissing \/ StepFails(dereferences)) =>
       (preprocess.status = 1 /\ preprocess.output = "none")
  /\ ~(ArgumentMissing \/ StepFails(dereferences)) =>
       /\ preprocess.status = 0
       /\ preprocess.output = IF dereferences THEN "dereferenced" ELSE "copy"

\* C29: a finished run has dereferenced every schema with a root-level $ref
\* and copied every other one, with exit status 0, or has exited with status
\* 1 for a missing argument or a failed step
C29_DereferenceOrCopy ==
  preprocess.pc = "Exited" => PreprocessOutcome(RootLevelRef(preprocess.env.schema))

\* what the script does: only a root-level $ref that starts with "#/" is
\* dereferenced
C29_LocalPointerOnly ==
  preprocess.pc = "Exited" => PreprocessOutcome(LocalRootRef(preprocess.env.schema))

\* a schema whose root-level $ref points into another file has been copied
C29_CopiedWithRootRef ==
  /\ preprocess.pc = "Exited" /\ preprocess.status = 0
  /\ preprocess.env.schema.kind = "object"
  /\ preprocess.env.schema.ref.str = OtherFile
  /\ preprocess.output = "copy"


(***************************************************************************)
(* C30: the script that generates the types, for one category.  A schema   *)
(* file whose name yields no version is skipped with a warning; a file     *)
(* whose pre-processing or generation fails is skipped; index.ts exports   *)
(* the numerically highest of the versions that were generated, and is     *)
(* not written when none was.                                              *)
(***************************************************************************)
\* the name ends in _v<digits>
HasVersionSuffix(name) ==
  \E n \in 1..Len(name) :
    /\ Len(name) >= n + 2
    /\ \A i \in (Len(name) - n + 1)..Len(name) : name[i] \in DigitChars
    /\ name[Len(name) - n - 1] = "_" /\ name[Len(name) - n] = "v"

\* the number a name that ends in _v<digits> carries
VersionNumber(name) ==
  CHOOSE k \in 0..MaxVersion : EndsWith(name, <<"_", "v">> \o Numeral(k))

CategoryFinished == typegen.pc \in {"Done", "Aborted"}

\* the files for which a TypeScript file was generated
GeneratedFiles == { d.name : d \in { e \in typegen.done : e.outcome = "generated" } }

\* the files that got past the extraction of the version
PastExtraction == { d.name : d \in typegen.done }

\* index.ts exports the highest of the generated versions, or is absent
IndexExportsHighest ==
  IF GeneratedFiles = {}
  THEN ~typegen.indexWritten
  ELSE /\ typegen.indexWritten
       /\ \E name \in GeneratedFiles :
            /\ \A other \in GeneratedFiles : VersionNumber(other) <= VersionNumber(name)
            /\ typegen.index = <<"v">> \o Numeral(VersionNumber(name))

\* a file that failed left no version behind
FailedFilesSkipped ==
  \A d \in typegen.done :
    (d.outcome # "generated" /\ HasVersionSuffix(d.name)) =>
      \A i \in DOMAIN typegen.versions :
        typegen.versions[i] # <<"v">> \o Numeral(VersionNumber(d.name))

\* C30: after process_category every file without a version in its name was
\* skipped with a warning, every failed file was skipped, and index.ts
\* exports the highest generated version or was not written
C30_SkipsAndExportsHighest ==
  CategoryFinished =>
    /\ \A name \in PastExtraction : HasVersionSuffix(name)
    /\ FailedFilesSkipped
    /\ IndexExportsHighest

\* what the script does when every schema file carries a version in its name
C30_VersionedNamesOnly ==
  (CategoryFinished /\ \A name \in PastExtraction : HasVersionSuffix(name)) =>
    /\ FailedFilesSkipped
    /\ IndexExportsHighest

\* index.ts exports a file generated from a schema without a version, next
\* to generated versions 1 and 2
C30_UnversionedExported ==
  /\ typegen.pc = "Done"
  /\ typegen.warned = {}
  /\ {<<"m">>, <<"m", "_", "v", "1">>, <<"m", "_", "v", "2">>} \subseteq GeneratedFiles
  /\ typegen.indexWritten
  /\ typegen.index = <<"v", "m">>

====
